---- MODULE Spec2Model ----
(***************************************************************************)
(* Delta: snapshot ingestion, deduplication, delta jobs and the rate       *)
(* limiter.  The state is the Postgres tables (endpoints, snapshots,       *)
(* deltas), the BullMQ queue 'delta-computation', the Redis rate-limit     *)
(* counters, the wall clock, and the position of every in-flight           *)
(* createSnapshot / checkRateLimit call (they interleave at each await).   *)
(***************************************************************************)
EXTENDS Integers, Sequences, FiniteSets, TLC

VARIABLES
    now,        \* wall clock, milliseconds (Date.now(), new Date())
    endpoints,  \* rows of table endpoints (their ids)
    snapshots,  \* rows of table snapshots
    nextId,     \* next row id handed out by the store (gen_random_uuid)
    deltas,     \* rows of table deltas
    jobs,       \* BullMQ jobs of queue 'delta-computation', by job id
    req,        \* in-flight createSnapshot calls, by request slot
    result,     \* what the createSnapshot call that returned last handed its caller
    counters,   \* Redis rate-limit keys: <<projectId, window>> -> count
    ttl,        \* Redis expiry of the rate-limit keys
    rl,         \* in-flight checkRateLimit calls, by caller slot
    calls,      \* what every checkRateLimit call that returned handed its caller
    compared    \* what the computeDeltaOnDemand call that returned last handed its caller

vars ==
    <<now, endpoints, snapshots, nextId, deltas, jobs, req, result, counters, ttl, rl,
      calls, compared>>

ingestVars == <<endpoints, snapshots, nextId, jobs, req, result>>
rateVars == <<counters, ttl, rl, calls>>

(***************************************************************************)
(* Bounds of the model.                                                    *)
(***************************************************************************)
MaxSnapshots == 2   \* snapshot rows ever written
MaxReqs == 2        \* concurrent createSnapshot calls
MaxCallers == 2     \* concurrent checkRateLimit calls
MaxChecks == 5      \* checkRateLimit calls ever issued
MaxJobs == 2        \* delta jobs ever enqueued
MaxQueued == 6      \* delta jobs of the run that fills the worker pool
MaxStream == 3      \* snapshot rows of the run with interleaved ingestion

(***************************************************************************)
(* JSON values.  A value is a record [t, n, s, c]: a number n, a string    *)
(* of s.len ASCII characters named s.id, an object whose members c are     *)
(* [k, v] pairs in insertion order, or an array with items c.              *)
(***************************************************************************)
NoStr == [id |-> "", len |-> 0]
Num(n) == [t |-> "num", n |-> n, s |-> NoStr, c |-> <<>>]
Str(id, len) == [t |-> "str", n |-> 0, s |-> [id |-> id, len |-> len], c |-> <<>>]
Obj(kv) == [t |-> "obj", n |-> 0, s |-> NoStr, c |-> kv]
Arr(items) == [t |-> "arr", n |-> 0, s |-> NoStr, c |-> items]
KV(k, v) == [k |-> k, v |-> v]

\* The property names of the documents, in the order Array.prototype.sort
\* (code-unit order) puts them.
KeyOrder == <<"0", "1", "2", "3", "a", "b", "p", "x">>

\* The property name of array index i (0-based).
IndexName(i) == <<"0", "1", "2", "3">>[i + 1]

RECURSIVE SumSeq(_)
SumSeq(q) == IF q = <<>> THEN 0 ELSE Head(q) + SumSeq(Tail(q))

RECURSIVE NumLen(_)
NumLen(n) == IF n < 10 THEN 1 ELSE 1 + NumLen(n \div 10)

\* Length of JSON.stringify(v): ASCII, so bytes = characters.
RECURSIVE StringifyLen(_)
StringifyLen(v) ==
    CASE v.t = "num" -> NumLen(v.n)
      [] v.t = "str" -> v.s.len + 2
      [] v.t = "obj" ->
            2 + SumSeq([i \in 1..Len(v.c) |->
                          Len(v.c[i].k) + 3 + StringifyLen(v.c[i].v)])
              + (IF Len(v.c) > 0 THEN Len(v.c) - 1 ELSE 0)
      [] v.t = "arr" ->
            2 + SumSeq([i \in 1..Len(v.c) |-> StringifyLen(v.c[i])])
              + (IF Len(v.c) > 0 THEN Len(v.c) - 1 ELSE 0)

\* Object.keys(v) as a set: the member names of an object, the index names
\* of an array, nothing for a primitive.
ObjectKeys(v) ==
    CASE v.t = "obj" -> {v.c[i].k : i \in 1..Len(v.c)}
      [] v.t = "arr" -> {IndexName(i - 1) : i \in 1..Len(v.c)}
      [] OTHER -> {}

Member(v, k) == (CHOOSE i \in 1..Len(v.c) : v.c[i].k = k)

\* JSON.stringify(v, allow): with an array replacer, every object at every
\* depth keeps only the properties named in allow, in the order of allow;
\* array items are all kept.  The result is the serialized text, kept as a
\* tree.
RECURSIVE StringifyWith(_, _)
StringifyWith(v, allow) ==
    LET Inner(child) == StringifyWith(child, allow)
        Each(children) == CHOOSE out \in {Inner(child) : child \in {children}} : TRUE
    IN  CASE v.t = "obj" ->
                CHOOSE out \in
                    {Obj([i \in 1..Len(present) |->
                            KV(present[i], Each(v.c[Member(v, present[i])].v))]) :
                        present \in {SelectSeq(allow, LAMBDA k : k \in ObjectKeys(v))}} :
                    TRUE
          [] v.t = "arr" -> Arr([i \in 1..Len(v.c) |-> Each(v.c[i])])
          [] OTHER -> v

\* Object.keys(data).sort()
SortedKeys(data) == SelectSeq(KeyOrder, LAMBDA k : k \in ObjectKeys(data))

\* hashData without the sort of the key list: Object.keys(data) as they come.
hashDataUnsorted(data) ==
    StringifyWith(data, [i \in 1..Len(data.c) |->
                            IF data.t = "obj" THEN data.c[i].k ELSE IndexName(i - 1)])

\* hashData: SHA-256 of JSON.stringify(data, Object.keys(data).sort()).  The
\* digest is taken to be injective on the text it is fed, so the hash is the
\* normalized text itself.
hashData(data) == StringifyWith(data, SortedKeys(data))

\* What a JSONB column gives back: the same value with every object's keys in
\* the column's own order (shorter keys first, then bytewise; the keys here
\* all have length 1).
Jsonb(v) == StringifyWith(v, KeyOrder)

(***************************************************************************)
(* lib/diff: computeDiff, countChanges, calculateSimilarity,               *)
(* categorizeChanges.                                                      *)
(***************************************************************************)
\* The concatenation of the sequences seqs[i], seqs[i + 1], ...
RECURSIVE ConcatFrom(_, _)
ConcatFrom(seqs, i) ==
    IF i > Len(seqs) THEN <<>> ELSE seqs[i] \o ConcatFrom(seqs, i + 1)

Concat(seqs) == CHOOSE all \in {ConcatFrom(q, 1) : q \in {seqs}} : TRUE

\* The decimal digits of n, one character each.
RECURSIVE Digits(_)
Digits(n) ==
    LET digit == <<"0", "1", "2", "3", "4", "5", "6", "7", "8", "9">>[(n % 10) + 1]
    IN  IF n < 10 THEN <<digit>> ELSE Digits(n \div 10) \o <<digit>>

\* The text JSON.stringify writes for a tree, character by character.
RECURSIVE JoinedFrom(_, _)
JoinedFrom(parts, i) ==
    IF i > Len(parts) THEN <<>>
    ELSE (IF i = 1 THEN <<>> ELSE <<",">>) \o parts[i] \o JoinedFrom(parts, i + 1)

\* The texts parts, separated by commas.
Joined(parts) == CHOOSE text \in {JoinedFrom(q, 1) : q \in {parts}} : TRUE

RECURSIVE Text(_)
Text(v) ==
    CASE v.t = "num" -> Digits(v.n)
      [] v.t = "str" -> <<"\"">> \o [i \in 1..v.s.len |-> v.s.id] \o <<"\"">>
      [] v.t = "obj" ->
            <<"{">> \o Joined([i \in 1..Len(v.c) |->
                                 <<"\"", v.c[i].k, "\"", ":">> \o Text(v.c[i].v)])
                    \o <<"}">>
      [] v.t = "arr" ->
            <<"[">> \o Joined([i \in 1..Len(v.c) |-> Text(v.c[i])]) \o <<"]">>

\* _objectKeys that finds no keys in an array.
objectKeysOfObjects(v) ==
    IF v.t = "arr" THEN <<>> ELSE [i \in 1..Len(v.c) |-> v.c[i].k]

\* _objectKeys(obj) of fast-json-patch: the index names of an array, the
\* Object.keys of an object.
objectKeys(v) ==
    IF v.t = "arr" THEN [i \in 1..Len(v.c) |-> IndexName(i - 1)]
    ELSE [i \in 1..Len(v.c) |-> v.c[i].k]

\* obj[key]
Prop(v, key) ==
    IF v.t = "arr" THEN v.c[(CHOOSE i \in 1..Len(v.c) : IndexName(i - 1) = key)]
    ELSE v.c[Member(v, key)].v

isContainer(v) == v.t \in {"obj", "arr"}

\* A comparison that finds any two values different.
differAlways(oldVal, newVal) == TRUE

\* oldVal !== newVal, for two values that are not both objects or both
\* arrays.
differ(oldVal, newVal) == oldVal # newVal

\* One JSON Patch operation; path is the list of its reference tokens.
NoValue == [t |-> "none", n |-> 0, s |-> NoStr, c |-> <<>>]
Operation(op, path, value) == [op |-> op, path |-> path, value |-> value]

\* _generate(mirror, obj, patches, path) of fast-json-patch.  The keys of
\* the old value are visited from the last to the first: a key both have
\* recurses (two objects, or two arrays) or is replaced when the values
\* differ; a key only the old value has is removed, or, when one of the two
\* is an array and the other is not, the value at path is replaced as a
\* whole.  The keys only the new value has are then added in order, unless
\* nothing was removed and both have the same number of keys.  (The shortcut
\* for obj === mirror gives the same empty patch as the walk does.)
RECURSIVE generate(_, _, _)
generate(mirror, obj, path) ==
    LET newKeys == objectKeys(obj)
        oldKeys == objectKeys(mirror)
        has(v, key) == key \in ObjectKeys(v)
        Visit(key) ==
            IF has(obj, key)
            THEN LET oldVal == Prop(mirror, key)
                     newVal == Prop(obj, key)
                 IN  IF isContainer(oldVal) /\ isContainer(newVal) /\ oldVal.t = newVal.t
                     THEN generate(oldVal, newVal, path \o <<key>>)
                     ELSE IF differ(oldVal, newVal)
                          THEN <<Operation("replace", path \o <<key>>, newVal)>>
                          ELSE <<>>
            ELSE IF mirror.t = obj.t
                 THEN <<Operation("remove", path \o <<key>>, NoValue)>>
                 ELSE <<Operation("replace", path, obj)>>
        deleted == \E t \in 1..Len(oldKeys) :
                       ~has(obj, oldKeys[t]) /\ mirror.t = obj.t
        visited == Concat([t \in 1..Len(oldKeys) |->
                             Visit(oldKeys[Len(oldKeys) - t + 1])])
        added == Concat([t \in 1..Len(newKeys) |->
                           IF ~has(mirror, newKeys[t])
                           THEN <<Operation("add", path \o <<newKeys[t]>>,
                                            Prop(obj, newKeys[t]))>>
                           ELSE <<>>])
    IN  IF ~deleted /\ Len(newKeys) = Len(oldKeys) THEN visited ELSE visited \o added

\* compare with its two trees exchanged.
compareReversed(tree1, tree2) == generate(tree2, tree1, <<>>)

\* compare(tree1, tree2) of fast-json-patch
compare(tree1, tree2) == generate(tree1, tree2, <<>>)

computeDiff(oldData, newData) == compare(oldData, newData)

countChanges(diff) == Len(diff)

\* A count of all the pairs of positions at which the two texts agree.
longestCommonSubstringPairs(str1, str2) ==
    Cardinality({ij \in (1..Len(str1)) \X (1..Len(str2)) : str1[ij[1]] = str2[ij[2]]})

\* longestCommonSubstring: dp[i][j] is dp[i-1][j-1] + 1 where the characters
\* agree and 0 elsewhere (row and column 0 are 0); the result is the largest
\* entry.
longestCommonSubstring(str1, str2) ==
    LET RECURSIVE dp(_, _)
        dp(i, j) ==
            IF i = 0 \/ j = 0 THEN 0
            ELSE IF str1[i] = str2[j] THEN dp(i - 1, j - 1) + 1
            ELSE 0
        Largest(entries) == CHOOSE e \in entries : \A f \in entries : e >= f
    IN  CHOOSE maxLen \in
            {Largest(entries) :
                entries \in {{0} \cup {dp(i, j) : i \in 1..Len(str1),
                                                  j \in 1..Len(str2)}}} : TRUE

\* A similarity score, as the quotient num / den.
Score(num, den) == [num |-> num, den |-> den]

\* calculateSimilarity, given the two serialized texts.
similarityOf(oldStr, newStr) ==
    LET maxLen == IF Len(oldStr) > Len(newStr) THEN Len(oldStr) ELSE Len(newStr)
    IN  IF oldStr = newStr THEN Score(1, 1)
        ELSE IF maxLen = 0 THEN Score(1, 1)
        ELSE Score(longestCommonSubstring(oldStr, newStr), maxLen)

calculateSimilarity(oldData, newData) ==
    CHOOSE score \in
        {similarityOf(oldStr, newStr) :
            oldStr \in {Text(StringifyWith(oldData, SortedKeys(oldData)))},
            newStr \in {Text(StringifyWith(newData, SortedKeys(newData)))}} : TRUE

Count(diff, ops) == Len(SelectSeq(diff, LAMBDA o : o.op \in ops))

\* categorizeChanges with 'replace' left out of the modifications.
categorizeChangesNoReplace(diff) ==
    [additions |-> Count(diff, {"add"}),
     deletions |-> Count(diff, {"remove"}),
     modifications |-> Count(diff, {"copy", "move"}),
     total |-> Len(diff)]

categorizeChanges(diff) ==
    [additions |-> Count(diff, {"add"}),
     deletions |-> Count(diff, {"remove"}),
     modifications |-> Count(diff, {"replace", "copy", "move"}),
     total |-> Len(diff)]

BytesPerMB == 1048576
MAX_SNAPSHOT_SIZE_MB == 10

getJsonSize(data) == StringifyLen(data)

checkJsonSizeStrict(data, maxSizeMB) == getJsonSize(data) < maxSizeMB * BytesPerMB

\* sizeMB = sizeBytes / (1024 * 1024); return sizeMB <= maxSizeMB.  The
\* division is by a power of two, so it is exact.
checkJsonSize(data, maxSizeMB) == getJsonSize(data) <= maxSizeMB * BytesPerMB

\* The documents callers submit.
DocSmall1 == Obj(<<KV("a", Num(1))>>)
DocSmall2 == Obj(<<KV("a", Num(2)), KV("b", Num(1))>>)
DocSmall2Reordered == Obj(<<KV("b", Num(1)), KV("a", Num(2))>>)
\* {"p":"<s>"} serializes to Len(s) + 8 bytes.
DocAtLimit == Obj(<<KV("p", Str("big", MAX_SNAPSHOT_SIZE_MB * BytesPerMB - 8))>>)
DocOverLimit == Obj(<<KV("p", Str("big", MAX_SNAPSHOT_SIZE_MB * BytesPerMB - 7))>>)

Docs == {DocSmall1, DocAtLimit, DocOverLimit}

\* Documents with nested objects and arrays.
DocNested1 == Obj(<<KV("a", Obj(<<KV("x", Num(1))>>)), KV("b", Num(1))>>)
DocNested1Reordered == Obj(<<KV("b", Num(1)), KV("a", Obj(<<KV("x", Num(1))>>))>>)
DocNested2 == Obj(<<KV("a", Obj(<<KV("x", Num(2))>>)), KV("b", Num(1))>>)
DocInner == Obj(<<KV("a", Obj(<<KV("a", Num(1)), KV("b", Num(2))>>)), KV("b", Num(0))>>)
DocInnerReordered == Obj(<<KV("a", Obj(<<KV("b", Num(2)), KV("a", Num(1))>>)), KV("b", Num(0))>>)
DocList12 == Obj(<<KV("a", Arr(<<Num(1), Num(2)>>))>>)
DocList21 == Obj(<<KV("a", Arr(<<Num(2), Num(1)>>))>>)
DocText1 == Obj(<<KV("a", Str("1", 1))>>)

DocItems1 == Obj(<<KV("a", Arr(<<Num(1)>>))>>)
DocItems123 == Obj(<<KV("a", Arr(<<Num(1), Num(2), Num(3)>>))>>)
DocSmall3 == Obj(<<KV("a", Num(3)), KV("p", Num(1))>>)
DocEmpty == Obj(<<>>)
DocRootList == Arr(<<Num(1)>>)
DocRootList21 == Arr(<<Num(2), Num(1)>>)

\* What the webhook route lets through: any JSON object or array.
DiffDocs ==
    {DocSmall1, DocSmall2, DocSmall3, DocNested1, DocNested2, DocItems1,
     DocItems123, DocList12, DocList21, DocEmpty, DocRootList, DocRootList21}

HashDocs ==
    {DocSmall1, DocText1, DocSmall2, DocSmall2Reordered, DocNested1,
     DocNested1Reordered, DocNested2, DocInner, DocInnerReordered, DocList12,
     DocList21}

Endpoints == {"e1", "e2"}

(***************************************************************************)
(* Storage (Postgres, through storage.service).                            *)
(***************************************************************************)
NoHash == [t |-> "none", n |-> 0, s |-> NoStr, c |-> <<>>]

NoSnapshot ==
    [id |-> 0, endpoint_id |-> "", timestamp |-> 0, data |-> Obj(<<>>),
     data_hash |-> NoHash, size_bytes |-> 0]

SnapshotsOf(endpointId) == {s \in snapshots : s.endpoint_id = endpointId}

\* The query without its WHERE clause: the newest rows of the whole table.
getLatestSnapshotOfAll(endpointId) ==
    IF snapshots = {} THEN {NoSnapshot}
    ELSE {s \in snapshots : \A o \in snapshots : o.timestamp <= s.timestamp}

\* SELECT * FROM snapshots WHERE endpoint_id = $1 ORDER BY timestamp DESC
\* LIMIT 1: the rows the query can return.  Rows with the same timestamp are
\* in no defined order, so any of the newest ones can come back.
getLatestSnapshot(endpointId) ==
    LET rows == SnapshotsOf(endpointId)
    IN  IF rows = {} THEN {NoSnapshot}
        ELSE {s \in rows : \A o \in rows : o.timestamp <= s.timestamp}

\* INSERT INTO snapshots ... RETURNING *: the new row.  timestamp is
\* snapshot.timestamp || new Date(); data goes through a JSONB column.
storage_createSnapshot(endpointId, data, dataHash, sizeBytes) ==
    [id |-> nextId, endpoint_id |-> endpointId, timestamp |-> now,
     data |-> Jsonb(data), data_hash |-> dataHash, size_bytes |-> sizeBytes]

(***************************************************************************)
(* The queue 'delta-computation' (BullMQ).                                 *)
(***************************************************************************)
deltaQueue_addSwapped(snapshotId, endpointId, previousSnapshotId) ==
    [snapshot_id |-> previousSnapshotId, endpoint_id |-> endpointId,
     previous_snapshot_id |-> snapshotId,
     state |-> "wait", step |-> "", attemptsMade |-> 0, failedReason |-> "",
     delayUntil |-> 0, delays |-> <<>>,
     finishedOn |-> 0, fetched |-> <<>>, stored |-> TRUE]

\* deltaQueue.add('compute-delta', {...}): a new job in the wait list.
deltaQueue_add(snapshotId, endpointId, previousSnapshotId) ==
    [snapshot_id |-> snapshotId, endpoint_id |-> endpointId,
     previous_snapshot_id |-> previousSnapshotId,
     state |-> "wait", step |-> "", attemptsMade |-> 0, failedReason |-> "",
     delayUntil |-> 0, delays |-> <<>>,
     finishedOn |-> 0, fetched |-> <<>>, stored |-> TRUE]

(***************************************************************************)
(* createSnapshot (snapshot.service): one call per request slot.           *)
(***************************************************************************)
Reqs == 1..MaxReqs

DEDUP_WINDOW_MS == 3600000

InFlight == {r \in Reqs : req[r].pc # "idle"}

IdleReq ==
    [pc |-> "idle", endpoint_id |-> "", data |-> Obj(<<>>), dataHash |-> NoHash,
     sizeBytes |-> 0, latest |-> NoSnapshot, snapshot |-> NoSnapshot,
     isDuplicate |-> FALSE, queuedForDelta |-> FALSE, error |-> "",
     logged |-> "", writes |-> 0, enqueues |-> 0,
     source |-> "", gate |-> "", retry |-> FALSE, caller |-> "waits"]

isDuplicateWithinMinute(latestSnapshot, dataHash) ==
    /\ latestSnapshot # NoSnapshot
    /\ latestSnapshot.data_hash = dataHash
    /\ now - latestSnapshot.timestamp < 60 * 1000

\* latestSnapshot !== null && latestSnapshot.data_hash === dataHash &&
\* Date.now() - latestSnapshot.timestamp.getTime() < 3600000
isDuplicate(latestSnapshot, dataHash) ==
    /\ latestSnapshot # NoSnapshot
    /\ latestSnapshot.data_hash = dataHash
    /\ now - latestSnapshot.timestamp < DEDUP_WINDOW_MS

\* A call that ends hands its caller the result (or the error) and frees its
\* slot.
Returns(r, final) ==
    /\ result' = final
    /\ req' = [req EXCEPT ![r] = IdleReq]

\* Entry: the size check, then (same synchronous stretch) hash and size.
\* An oversized payload throws before anything else is computed.  call says
\* who calls: params.source, the rate-limit answer the request came through,
\* and whether the caller repeats a request it gave up waiting for.
createSnapshot_Entry(r, endpointId, data, call) ==
    /\ req[r].pc = "idle"
    /\ IF ~checkJsonSize(data, MAX_SNAPSHOT_SIZE_MB)
       THEN Returns(r, [call EXCEPT !.pc = "failed", !.endpoint_id = endpointId,
                                    !.data = data, !.error = "too_large"])
       ELSE /\ req' = [req EXCEPT ![r] =
                  [call EXCEPT !.pc = "getLatest", !.endpoint_id = endpointId,
                               !.data = data, !.dataHash = hashData(data),
                               !.sizeBytes = getJsonSize(data)]]
            /\ UNCHANGED result

\* createSnapshot(params), whoever calls it.
createSnapshot_Call(r, endpointId, data) ==
    /\ createSnapshot_Entry(r, endpointId, data, IdleReq)
    /\ UNCHANGED <<compared, now, endpoints, snapshots, nextId, deltas, jobs, rateVars>>

\* The caller of an unfinished call stops waiting for it (its own timeout).
\* No handler looks at the request's abort signal: the call runs on.
createSnapshot_CallerGivesUp(r) ==
    /\ req[r].pc # "idle"
    /\ req[r].caller = "waits"
    /\ req' = [req EXCEPT ![r].caller = "gaveUp"]
    /\ UNCHANGED <<compared, now, endpoints, snapshots, nextId, deltas, jobs, result, rateVars>>

\* The calls whose caller gave up: still running, or the one that ended last.
GivenUp ==
    {req[r] : r \in {q \in Reqs : req[q].caller = "gaveUp"}}
        \cup (IF result.caller = "gaveUp" THEN {result} ELSE {})

\* The caller repeats a request it gave up on: same endpoint, same payload.
createSnapshot_Retry(r) ==
    /\ \E first \in GivenUp :
          createSnapshot_Entry(r, first.endpoint_id, first.data,
                               [IdleReq EXCEPT !.retry = TRUE])
    /\ UNCHANGED <<compared, now, endpoints, snapshots, nextId, deltas, jobs, rateVars>>

\* await storage.getLatestSnapshot(...) returns; the duplicate test follows
\* at once, and a duplicate returns the previous snapshot.
createSnapshot_GetLatest(r) ==
    /\ req[r].pc = "getLatest"
    /\ \E latestSnapshot \in getLatestSnapshot(req[r].endpoint_id) :
          IF isDuplicate(latestSnapshot, req[r].dataHash)
          THEN Returns(r, [req[r] EXCEPT !.pc = "done", !.latest = latestSnapshot,
                                         !.snapshot = latestSnapshot,
                                         !.isDuplicate = TRUE,
                                         !.queuedForDelta = FALSE])
          ELSE /\ req' = [req EXCEPT ![r].pc = "create", ![r].latest = latestSnapshot]
               /\ UNCHANGED result
    /\ UNCHANGED <<compared, now, endpoints, snapshots, nextId, deltas, jobs, rateVars>>

\* The query of getLatestSnapshot rejects: createSnapshot throws.
createSnapshot_GetLatestFails(r) ==
    /\ req[r].pc = "getLatest"
    /\ Returns(r, [req[r] EXCEPT !.pc = "failed", !.error = "storage"])
    /\ UNCHANGED <<compared, now, endpoints, snapshots, nextId, deltas, jobs, rateVars>>

\* An INSERT that keeps one row per endpoint: the new row takes the place of
\* the endpoint's older ones.
createSnapshot_InsertReplaces(r) ==
    /\ req[r].pc = "create"
    /\ req[r].endpoint_id \in endpoints
    /\ LET snapshot == storage_createSnapshot(req[r].endpoint_id, req[r].data,
                                              req[r].dataHash, req[r].sizeBytes)
           written == [req[r] EXCEPT !.snapshot = snapshot, !.writes = @ + 1]
       IN  /\ snapshots' = {s \in snapshots : s.endpoint_id # req[r].endpoint_id}
                               \cup {snapshot}
           /\ nextId' = nextId + 1
           /\ IF req[r].latest # NoSnapshot
              THEN /\ req' = [req EXCEPT ![r] = [written EXCEPT !.pc = "enqueue"]]
                   /\ UNCHANGED result
              ELSE Returns(r, [written EXCEPT !.pc = "done"])
    /\ UNCHANGED <<compared, now, endpoints, deltas, jobs, rateVars>>

\* await storage.createSnapshot(...) returns the new row.  Without a previous
\* snapshot nothing is queued and the call returns.
createSnapshot_Insert(r) ==
    /\ req[r].pc = "create"
    /\ req[r].endpoint_id \in endpoints
    /\ LET snapshot == storage_createSnapshot(req[r].endpoint_id, req[r].data,
                                              req[r].dataHash, req[r].sizeBytes)
           written == [req[r] EXCEPT !.snapshot = snapshot, !.writes = @ + 1]
       IN  /\ snapshots' = snapshots \cup {snapshot}
           /\ nextId' = nextId + 1
           /\ IF req[r].latest # NoSnapshot
              THEN /\ req' = [req EXCEPT ![r] = [written EXCEPT !.pc = "enqueue"]]
                   /\ UNCHANGED result
              ELSE Returns(r, [written EXCEPT !.pc = "done"])
    /\ UNCHANGED <<compared, now, endpoints, deltas, jobs, rateVars>>

\* An INSERT that is repeated after it rejected and then throws all the same:
\* the row of the second try stays.
createSnapshot_InsertFailsAfterRetry(r) ==
    /\ req[r].pc = "create"
    /\ snapshots' = snapshots \cup
          {storage_createSnapshot(req[r].endpoint_id, req[r].data,
                                  req[r].dataHash, req[r].sizeBytes)}
    /\ nextId' = nextId + 1
    /\ Returns(r, [req[r] EXCEPT !.pc = "failed", !.error = "storage"])
    /\ UNCHANGED <<compared, now, endpoints, deltas, jobs, rateVars>>

\* The INSERT rejects (connectivity, or the endpoint row is gone and the
\* foreign key fails): createSnapshot throws, nothing is written.
createSnapshot_InsertFails(r) ==
    /\ req[r].pc = "create"
    /\ Returns(r, [req[r] EXCEPT !.pc = "failed", !.error = "storage"])
    /\ UNCHANGED <<compared, now, endpoints, snapshots, nextId, deltas, jobs, rateVars>>

\* await deltaQueue.add(...) returns: queuedForDelta = true.
createSnapshot_Enqueue(r) ==
    /\ req[r].pc = "enqueue"
    /\ jobs' = Append(jobs, deltaQueue_add(req[r].snapshot.id,
                                           req[r].snapshot.endpoint_id,
                                           req[r].latest.id))
    /\ Returns(r, [req[r] EXCEPT !.pc = "done", !.queuedForDelta = TRUE,
                                 !.enqueues = @ + 1])
    /\ UNCHANGED <<compared, now, endpoints, snapshots, nextId, deltas, rateVars>>

\* queuedForDelta set ahead of the add: a failed add leaves it true.
enqueueFailureFlagged(call) ==
    [call EXCEPT !.pc = "done", !.logged = "queue", !.queuedForDelta = TRUE]

enqueueFailureRethrown(call) ==
    [call EXCEPT !.pc = "failed", !.error = "queue"]

\* catch (error) { console.error('Failed to queue delta computation:', error) }
\* and then the normal return, queuedForDelta still false.
enqueueFailureCaught(call) ==
    [call EXCEPT !.pc = "done", !.logged = "queue"]

\* deltaQueue.add rejects: the catch logs and the call still returns.
createSnapshot_EnqueueFails(r) ==
    /\ req[r].pc = "enqueue"
    /\ Returns(r, enqueueFailureCaught(req[r]))
    /\ UNCHANGED <<compared, now, endpoints, snapshots, nextId, deltas, jobs, rateVars>>

(***************************************************************************)
(* The wall clock.                                                         *)
(***************************************************************************)
\* The instants at which the clock is observed: the start, the last
\* millisecond of the first hour, and the start of the second hour.
Instants == {0, DEDUP_WINDOW_MS - 1, DEDUP_WINDOW_MS}

\* The clock reaches a later one of the given instants.
Advance(instants) ==
    /\ \E t \in instants : t > now /\ now' = t
    /\ UNCHANGED <<compared, ingestVars, deltas, rateVars>>

Tick == Advance(Instants)

(***************************************************************************)
(* checkRateLimit (lib/rate-limit): Redis counters per project and hour.   *)
(***************************************************************************)
Projects == {"p1", "p2"}

\* auth.tier of each project.
TierOf == [p1 |-> "free", p2 |-> "pro"]

\* RATE_LIMITS, read from RATE_LIMIT_FREE / _PRO / _ENTERPRISE; the run sets
\* them to 2, 3 and 4 requests per hour.
RATE_LIMITS == [free |-> 2, pro |-> 3, enterprise |-> 4]

WINDOW_SIZE_SECONDS == 3600

HourMs == 3600000

\* getCurrentWindow: the UTC year-month-day-hour of now, which names the hour
\* since the epoch one to one.
getCurrentWindow == now \div HourMs

Callers == 1..MaxCallers

RateKeys == Projects \X {t \div HourMs : t \in Instants}

NoExpiry == 0 - 1

IdleCall == [pc |-> "idle", projectId |-> "", key |-> <<"", 0>>, ord |-> 0, count |-> 0]

\* A key whose expiry has passed is gone for every command that touches it.
Expired(key) == ttl[key] # NoExpiry /\ now >= ttl[key]

RedisGet(key) == IF Expired(key) THEN 0 ELSE counters[key]

\* checkRateLimit calls issued so far for a key (returned or in flight).
Issued(key) ==
    Cardinality({e \in calls : e.key = key})
        + Cardinality({c \in Callers : rl[c].pc # "idle" /\ rl[c].key = key})

incrReturnsOld(key) == RedisGet(key)

\* const count = await redis.incr(key): the value after the increment.
incr(key) == RedisGet(key) + 1

allowedBeforeIncrement(count, limit) ==
    [allowed |-> count - 1 <= limit,
     remaining |-> IF limit - count > 0 THEN limit - count ELSE 0,
     limit |-> limit, error |-> ""]

allowedStrict(count, limit) ==
    [allowed |-> count < limit,
     remaining |-> IF limit - count > 0 THEN limit - count ELSE 0,
     limit |-> limit, error |-> ""]

\* allowed = count <= limit; remaining = Math.max(0, limit - count)
allowedResult(count, limit) ==
    [allowed |-> count <= limit,
     remaining |-> IF limit - count > 0 THEN limit - count ELSE 0,
     limit |-> limit, error |-> ""]

failClosed(limit) ==
    [allowed |-> FALSE, remaining |-> 0, limit |-> limit, error |-> ""]

\* catch (error): fail open, allowed = true and remaining = limit.
failOpen(limit) ==
    [allowed |-> TRUE, remaining |-> limit, limit |-> limit, error |-> ""]

\* The call returns answer to its caller.  overtaken: other calls have
\* incremented the key between this call's increment and its return.
Responds(c, call, answer, failed) ==
    /\ calls' = calls \cup
          {[key |-> call.key, ord |-> call.ord, count |-> call.count,
            failed |-> failed, answer |-> answer,
            overtaken |-> ~failed /\ RedisGet(call.key) > call.count,
            next |-> "pending"]}
    /\ rl' = [rl EXCEPT ![c] = IdleCall]

\* A limiter whose key leaves the project out: one counter per window for
\* all projects.
checkRateLimit_IncrShared(c, projectId) ==
    /\ rl[c].pc = "idle"
    /\ Cardinality(calls) + Cardinality({d \in Callers : rl[d].pc # "idle"}) < MaxChecks
    /\ LET limit == RATE_LIMITS[TierOf[projectId]]
           key == <<"p1", getCurrentWindow>>
           count == incr(key)
           call == [pc |-> "expire", projectId |-> projectId, key |-> key,
                    ord |-> Issued(key) + 1, count |-> count]
       IN  /\ counters' = [counters EXCEPT ![key] = RedisGet(key) + 1]
           /\ ttl' = [ttl EXCEPT ![key] = IF Expired(key) THEN NoExpiry ELSE @]
           /\ IF count = 1
              THEN /\ rl' = [rl EXCEPT ![c] = call]
                   /\ UNCHANGED calls
              ELSE Responds(c, call, allowedResult(count, limit), FALSE)
    /\ UNCHANGED <<compared, now, ingestVars, deltas>>

\* Entry: limit, key, and redis.incr(key) returns.  A count other than 1
\* goes straight to the answer.
checkRateLimit_Incr(c, projectId) ==
    /\ rl[c].pc = "idle"
    /\ Cardinality(calls) + Cardinality({d \in Callers : rl[d].pc # "idle"}) < MaxChecks
    /\ LET limit == RATE_LIMITS[TierOf[projectId]]
           key == <<projectId, getCurrentWindow>>
           count == incr(key)
           call == [pc |-> "expire", projectId |-> projectId, key |-> key,
                    ord |-> Issued(key) + 1, count |-> count]
       IN  /\ counters' = [counters EXCEPT ![key] = RedisGet(key) + 1]
           /\ ttl' = [ttl EXCEPT ![key] = IF Expired(key) THEN NoExpiry ELSE @]
           /\ IF count = 1
              THEN /\ rl' = [rl EXCEPT ![c] = call]
                   /\ UNCHANGED calls
              ELSE Responds(c, call, allowedResult(count, limit), FALSE)
    /\ UNCHANGED <<compared, now, ingestVars, deltas>>

\* redis.incr rejects: the catch answers.
checkRateLimit_IncrFails(c, projectId) ==
    /\ rl[c].pc = "idle"
    /\ Cardinality(calls) + Cardinality({d \in Callers : rl[d].pc # "idle"}) < MaxChecks
    /\ LET limit == RATE_LIMITS[TierOf[projectId]]
           key == <<projectId, getCurrentWindow>>
           call == [pc |-> "idle", projectId |-> projectId, key |-> key,
                    ord |-> Issued(key) + 1, count |-> 0]
       IN  Responds(c, call, failOpen(limit), TRUE)
    /\ UNCHANGED <<compared, now, ingestVars, deltas, counters, ttl>>

\* if (count === 1) await redis.expire(key, WINDOW_SIZE_SECONDS) returns.
checkRateLimit_Expire(c) ==
    /\ rl[c].pc = "expire"
    /\ LET limit == RATE_LIMITS[TierOf[rl[c].projectId]]
           key == rl[c].key
       IN  /\ ttl' = [ttl EXCEPT ![key] =
                        IF RedisGet(key) = 0 THEN @
                        ELSE now + WINDOW_SIZE_SECONDS * 1000]
           /\ counters' = [counters EXCEPT ![key] = RedisGet(key)]
           /\ Responds(c, rl[c], allowedResult(rl[c].count, limit), FALSE)
    /\ UNCHANGED <<compared, now, ingestVars, deltas>>

\* redis.expire rejects: the catch answers, the key keeps no expiry.
checkRateLimit_ExpireFails(c) ==
    /\ rl[c].pc = "expire"
    /\ Responds(c, rl[c], failOpen(RATE_LIMITS[TierOf[rl[c].projectId]]), TRUE)
    /\ UNCHANGED <<compared, now, ingestVars, deltas, counters, ttl>>

(***************************************************************************)
(* The entry points of createSnapshot: POST /v1/snapshots behind            *)
(* rateLimitMiddleware, POST /v1/webhooks/..., and the polling worker.      *)
(***************************************************************************)
\* endpoint.project_id
ProjectOf == [e1 |-> "p1", e2 |-> "p2"]

\* The answer of a checkRateLimit call is marked once the middleware acted on it.
Marked(answered, as) == calls' = (calls \ {answered}) \cup {[answered EXCEPT !.next = as]}

\* rateLimitMiddleware, allowed: await next(), and the handler of POST
\* /snapshots (the endpoint is the project's) calls createSnapshot.
rateLimitMiddleware_Next(answered, r, endpointId, data) ==
    /\ answered \in calls /\ answered.next = "pending"
    /\ answered.answer.allowed
    /\ ProjectOf[endpointId] = answered.key[1]
    /\ Marked(answered, "passed")
    /\ createSnapshot_Entry(r, endpointId, data,
                            [IdleReq EXCEPT !.source = "sdk", !.gate = "allowed"])
    /\ UNCHANGED <<compared, now, endpoints, snapshots, nextId, deltas, jobs, counters, ttl, rl>>

\* rateLimitMiddleware, not allowed: 429 RATE_LIMIT_EXCEEDED, next() is not
\* called.
rateLimitMiddleware_Deny(answered) ==
    /\ answered \in calls /\ answered.next = "pending"
    /\ ~answered.answer.allowed
    /\ Marked(answered, "denied")
    /\ UNCHANGED <<compared, now, ingestVars, deltas, counters, ttl, rl>>

\* POST /v1/webhooks/:project_id/:endpoint_id/:token: mounted without
\* rateLimitMiddleware; the handler calls createSnapshot.
webhooks_Post(r, endpointId, data) ==
    /\ endpointId \in endpoints
    /\ createSnapshot_Entry(r, endpointId, data,
                            [IdleReq EXCEPT !.source = "webhook", !.gate = "none"])
    /\ UNCHANGED <<compared, now, endpoints, snapshots, nextId, deltas, jobs, rateVars>>

\* The polling worker's processor: fetch, then createSnapshot.
polling_Job(r, endpointId, data) ==
    /\ createSnapshot_Entry(r, endpointId, data,
                            [IdleReq EXCEPT !.source = "polling", !.gate = "none"])
    /\ UNCHANGED <<compared, now, endpoints, snapshots, nextId, deltas, jobs, rateVars>>

\* Redis drops a key whose expiry has passed.
Redis_Expire(key) ==
    /\ counters[key] > 0
    /\ Expired(key)
    /\ counters' = [counters EXCEPT ![key] = 0]
    /\ ttl' = [ttl EXCEPT ![key] = NoExpiry]
    /\ UNCHANGED <<compared, now, ingestVars, deltas, rl, calls>>

(***************************************************************************)
(* deleteEndpoint (routes/deltas -> storage): DELETE FROM endpoints, which *)
(* the schema cascades to the endpoint's snapshots and deltas.             *)
(***************************************************************************)
deleteEndpoint(endpointId) ==
    /\ endpointId \in endpoints
    /\ endpoints' = endpoints \ {endpointId}
    /\ snapshots' = {s \in snapshots : s.endpoint_id # endpointId}
    /\ deltas' = {d \in deltas : d.endpoint_id # endpointId}
    /\ UNCHANGED <<compared, now, nextId, jobs, req, result, rateVars>>

(***************************************************************************)
(* The worker of 'delta-computation' (workers/delta-worker) and BullMQ's   *)
(* treatment of its jobs under the queue's defaultJobOptions.              *)
(***************************************************************************)
\* attempts, backoff {exponential, delay}, removeOnComplete {age, count},
\* removeOnFail {age}: ages in seconds, the delay in milliseconds.
defaultJobOptions ==
    [attempts |-> 3, backoffDelay |-> 1000,
     removeOnCompleteAge |-> 3600, removeOnCompleteCount |-> 1000,
     removeOnFailAge |-> 86400]

\* concurrency and limiter {max, duration} of the Worker.  With at most
\* MaxJobs jobs the limiter of 100 jobs per second never holds a job back.
workerOptions == [concurrency |-> 5, limiterMax |-> 100, limiterDuration |-> 1000]

JobIds == DOMAIN jobs

Active == {i \in JobIds : jobs[i].stored /\ jobs[i].state = "active"}

\* Exponential backoff: 2 ^ (attemptsMade - 1) * delay.
backoff(attemptsMade) == 2 ^ (attemptsMade - 1) * defaultJobOptions.backoffDelay

retryOnceMore(attemptsMade) == attemptsMade <= defaultJobOptions.attempts

\* A failed attempt is retried while attemptsMade < attempts.
shouldRetry(attemptsMade) == attemptsMade < defaultJobOptions.attempts

\* throw new Error('One or both snapshots not found') is an Error like any
\* other: the worker's catch rethrows it and BullMQ retries the job.
retryable(error) == TRUE

\* A read that returns the endpoint's newest snapshot, whatever id is asked.
getSnapshotNewest(endpointId, snapshotId) ==
    LET rows == {s \in snapshots : s.endpoint_id = endpointId}
    IN  IF rows = {} THEN NoSnapshot
        ELSE CHOOSE s \in rows : \A o \in rows : o.id <= s.id

\* storage.getSnapshot(endpointId, snapshotId): the row or null.
getSnapshot(endpointId, snapshotId) ==
    LET rows == {s \in snapshots : s.endpoint_id = endpointId /\ s.id = snapshotId}
    IN  IF rows = {} THEN NoSnapshot ELSE CHOOSE s \in rows : TRUE

\* The retention of a finished set, applied when a job moves into it: jobs
\* that finished more than age seconds ago are removed.  (The count of 1000
\* completed jobs is beyond MaxJobs.)
Removed(job, target) ==
    /\ job.stored
    /\ job.state = target
    /\ job.finishedOn < now - 1000 * (IF target = "failed"
                                       THEN defaultJobOptions.removeOnFailAge
                                       ELSE defaultJobOptions.removeOnCompleteAge)

\* moveToFinished: job i enters the completed or the failed set.
moveToFinished(i, target, error) ==
    jobs' = [k \in JobIds |->
               IF k = i
               THEN [jobs[i] EXCEPT !.state = target, !.step = "",
                                    !.attemptsMade = @ + 1,
                                    !.failedReason = error,
                                    !.finishedOn = now, !.fetched = <<>>]
               ELSE IF Removed(jobs[k], target)
                    THEN [jobs[k] EXCEPT !.stored = FALSE]
                    ELSE jobs[k]]

moveToFailedRequeues(i, error) ==
    jobs' = [jobs EXCEPT ![i] = [@ EXCEPT !.state = "wait", !.step = "",
                                          !.failedReason = error, !.fetched = <<>>]]

\* The processor threw: a retry after the backoff delay, or the failed set.
moveToFailed(i, error) ==
    LET made == jobs[i].attemptsMade + 1
    IN  IF retryable(error) /\ shouldRetry(made)
        THEN jobs' = [jobs EXCEPT ![i] =
                 [@ EXCEPT !.state = "delayed", !.step = "",
                           !.attemptsMade = made, !.failedReason = error,
                           !.delayUntil = now + backoff(made),
                           !.delays = Append(@, backoff(made)),
                           !.fetched = <<>>]]
        ELSE moveToFinished(i, "failed", error)

\* A worker that takes every waiting job at once.
Worker_StartUnbounded(i) ==
    /\ i \in JobIds /\ jobs[i].stored /\ jobs[i].state = "wait"
    /\ jobs' = [jobs EXCEPT ![i].state = "active", ![i].step = "fetch"]
    /\ UNCHANGED <<compared, now, endpoints, snapshots, nextId, deltas, req, result, rateVars>>

\* The worker takes a waiting job while fewer than concurrency are active.
Worker_Start(i) ==
    /\ i \in JobIds /\ jobs[i].stored /\ jobs[i].state = "wait"
    /\ Cardinality(Active) < workerOptions.concurrency
    /\ jobs' = [jobs EXCEPT ![i].state = "active", ![i].step = "fetch"]
    /\ UNCHANGED <<compared, now, endpoints, snapshots, nextId, deltas, req, result, rateVars>>

\* computeDelta: both getSnapshot calls return; a null throws.
computeDelta_Fetch(i) ==
    /\ i \in Active /\ jobs[i].step = "fetch"
    /\ LET fromSnapshot == getSnapshot(jobs[i].endpoint_id, jobs[i].previous_snapshot_id)
           toSnapshot == getSnapshot(jobs[i].endpoint_id, jobs[i].snapshot_id)
       IN  IF fromSnapshot = NoSnapshot \/ toSnapshot = NoSnapshot
           THEN moveToFailed(i, "not_found")
           ELSE jobs' = [jobs EXCEPT ![i].step = "store",
                                     ![i].fetched = <<fromSnapshot, toSnapshot>>]
    /\ UNCHANGED <<compared, now, endpoints, snapshots, nextId, deltas, req, result, rateVars>>

\* A getSnapshot query rejects.
computeDelta_FetchFails(i) ==
    /\ i \in Active /\ jobs[i].step = "fetch"
    /\ moveToFailed(i, "storage")
    /\ UNCHANGED <<compared, now, endpoints, snapshots, nextId, deltas, req, result, rateVars>>

\* INSERT INTO deltas ... RETURNING *: the row job i writes in its current
\* attempt.  The id is fresh (gen_random_uuid); no constraint looks at the
\* pair (from_snapshot_id, to_snapshot_id).
createDelta(i) ==
    CHOOSE row \in
        {[id |-> <<i, jobs[i].attemptsMade + 1>>,
          endpoint_id |-> jobs[i].endpoint_id,
          from_snapshot_id |-> jobs[i].previous_snapshot_id,
          to_snapshot_id |-> jobs[i].snapshot_id,
          diff |-> diff,
          changes_count |-> countChanges(diff),
          similarity_score |->
              calculateSimilarity(jobs[i].fetched[1].data, jobs[i].fetched[2].data),
          timestamp |-> jobs[i].fetched[2].timestamp] :
            diff \in {computeDiff(jobs[i].fetched[1].data, jobs[i].fetched[2].data)}} :
        TRUE

\* storage.createDelta inserts the row and the job completes; the INSERT
\* needs the endpoint row (foreign key) and throws without it.
computeDelta_CreateDelta(i) ==
    /\ i \in Active /\ jobs[i].step = "store"
    /\ IF jobs[i].endpoint_id \in endpoints
       THEN /\ deltas' = deltas \cup {createDelta(i)}
            /\ moveToFinished(i, "completed", "")
       ELSE /\ moveToFailed(i, "storage_write")
            /\ UNCHANGED deltas
    /\ UNCHANGED <<compared, now, endpoints, snapshots, nextId, req, result, rateVars>>

\* The INSERT of createDelta commits, but the attempt still ends in an error
\* (the connection drops before the reply): the row stays, the job fails.
\* For the job this is computeDelta_CreateDeltaFails.
computeDelta_CreateDeltaLost(i) ==
    /\ i \in Active /\ jobs[i].step = "store"
    /\ jobs[i].endpoint_id \in endpoints
    /\ deltas' = deltas \cup {createDelta(i)}
    /\ moveToFailed(i, "storage_reply")
    /\ UNCHANGED <<compared, now, endpoints, snapshots, nextId, req, result, rateVars>>

\* The INSERT of createDelta rejects: nothing is written.
computeDelta_CreateDeltaFails(i) ==
    /\ i \in Active /\ jobs[i].step = "store"
    /\ moveToFailed(i, "storage_write")
    /\ UNCHANGED <<compared, now, endpoints, snapshots, nextId, deltas, req, result, rateVars>>

\* A delayed job whose delay has passed goes back to the wait list.
Queue_Promote(i) ==
    /\ i \in JobIds /\ jobs[i].stored /\ jobs[i].state = "delayed"
    /\ now >= jobs[i].delayUntil
    /\ jobs' = [jobs EXCEPT ![i].state = "wait", ![i].delayUntil = 0]
    /\ UNCHANGED <<compared, now, endpoints, snapshots, nextId, deltas, req, result, rateVars>>

\* The instants the queue waits for: the end of a backoff delay, and the
\* first millisecond past the retention of a finished job.
DueTimes ==
    {jobs[i].delayUntil : i \in {k \in JobIds : jobs[k].state = "delayed"}}
    \cup {jobs[i].finishedOn + 1000 * defaultJobOptions.removeOnFailAge + 1 :
            i \in {k \in JobIds : jobs[k].stored /\ jobs[k].state = "failed"}}
    \cup {jobs[i].finishedOn + 1000 * defaultJobOptions.removeOnCompleteAge + 1 :
            i \in {k \in JobIds : jobs[k].stored /\ jobs[k].state = "completed"}}

Clock_Due == Advance(DueTimes)

\* Fewer than cap snapshot rows have been written or are being written.
(***************************************************************************)
(* computeDeltaOnDemand (POST /deltas/compare): the diff of any two         *)
(* snapshots of an endpoint, computed for the caller.                      *)
(***************************************************************************)
NoComparison ==
    [status |-> "none", endpoint_id |-> "", from_snapshot_id |-> 0, to_snapshot_id |-> 0,
     diff |-> <<>>, changes_count |-> 0, similarity_score |-> Score(0, 1)]

\* What the call hands back: the comparison, or the error it threw.
Comparison(endpointId, fromSnapshotId, toSnapshotId) ==
    LET fromSnapshot == getSnapshot(endpointId, fromSnapshotId)
        toSnapshot == getSnapshot(endpointId, toSnapshotId)
    IN  IF fromSnapshot = NoSnapshot \/ toSnapshot = NoSnapshot
        THEN [NoComparison EXCEPT !.status = "not_found", !.endpoint_id = endpointId,
                                  !.from_snapshot_id = fromSnapshotId,
                                  !.to_snapshot_id = toSnapshotId]
        ELSE [status |-> "ok", endpoint_id |-> endpointId,
              from_snapshot_id |-> fromSnapshotId, to_snapshot_id |-> toSnapshotId,
              diff |-> computeDiff(fromSnapshot.data, toSnapshot.data),
              changes_count |->
                  countChanges(computeDiff(fromSnapshot.data, toSnapshot.data)),
              similarity_score |->
                  calculateSimilarity(fromSnapshot.data, toSnapshot.data)]

\* A comparison that also stores what it computed, as computeDelta does.
computeDeltaOnDemandStored(endpointId, fromSnapshotId, toSnapshotId) ==
    /\ compared' = Comparison(endpointId, fromSnapshotId, toSnapshotId)
    /\ deltas' = IF compared'.status = "ok"
                 THEN deltas \cup {[id |-> <<0, 0>>, endpoint_id |-> endpointId,
                                    from_snapshot_id |-> fromSnapshotId,
                                    to_snapshot_id |-> toSnapshotId,
                                    diff |-> compared'.diff,
                                    changes_count |-> compared'.changes_count,
                                    similarity_score |-> compared'.similarity_score,
                                    timestamp |-> now]}
                 ELSE deltas
    /\ UNCHANGED <<now, ingestVars, rateVars>>

computeDeltaOnDemand(endpointId, fromSnapshotId, toSnapshotId) ==
    /\ compared' = Comparison(endpointId, fromSnapshotId, toSnapshotId)
    /\ UNCHANGED <<now, ingestVars, deltas, rateVars>>

RowsBelow(cap) == nextId + Cardinality(InFlight) <= cap

(***************************************************************************)
(* Ingestion alone: concurrent createSnapshot calls and the clock.         *)
(***************************************************************************)
Init ==
    /\ now = 0
    /\ endpoints = Endpoints
    /\ snapshots = {}
    /\ nextId = 1
    /\ deltas = {}
    /\ jobs = <<>>
    /\ req = [r \in Reqs |-> IdleReq]
    /\ result = IdleReq
    /\ counters = [k \in RateKeys |-> 0]
    /\ ttl = [k \in RateKeys |-> NoExpiry]
    /\ rl = [c \in Callers |-> IdleCall]
    /\ calls = {}
    /\ compared = NoComparison

NextIngest ==
    \/ \E r \in Reqs, e \in Endpoints, d \in Docs :
          RowsBelow(MaxSnapshots) /\ createSnapshot_Call(r, e, d)
    \/ \E r \in Reqs : createSnapshot_GetLatest(r)
    \/ \E r \in Reqs : createSnapshot_GetLatestFails(r)
    \/ \E r \in Reqs : createSnapshot_Insert(r)
    \/ \E r \in Reqs : createSnapshot_InsertFails(r)
    \/ \E r \in Reqs : createSnapshot_Enqueue(r)
    \/ \E r \in Reqs : createSnapshot_EnqueueFails(r)
    \/ Tick

SpecIngest == Init /\ [][NextIngest]_vars

(***************************************************************************)
(* Ingestion of documents with nested content: what hashData tells apart.  *)
(***************************************************************************)
NextHash ==
    \/ \E r \in Reqs, d \in HashDocs :
          RowsBelow(MaxSnapshots) /\ createSnapshot_Call(r, "e1", d)
    \/ \E r \in Reqs : createSnapshot_GetLatest(r)
    \/ \E r \in Reqs : createSnapshot_Insert(r)
    \/ \E r \in Reqs : createSnapshot_Enqueue(r)

SpecHash == Init /\ [][NextHash]_vars

(***************************************************************************)
(* Webhook deliveries an hour apart or less, and the worker that computes  *)
(* and stores their deltas.                                                *)
(***************************************************************************)
NextDiff ==
    \/ \E d \in DiffDocs : RowsBelow(MaxSnapshots) /\ webhooks_Post(1, "e1", d)
    \/ createSnapshot_GetLatest(1)
    \/ createSnapshot_Insert(1)
    \/ createSnapshot_Enqueue(1)
    \/ \E i \in 1..MaxJobs : Worker_Start(i)
    \/ \E i \in 1..MaxJobs : computeDelta_Fetch(i)
    \/ \E i \in 1..MaxJobs : computeDelta_CreateDelta(i)
    \/ Tick

SpecDiff == Init /\ [][NextDiff]_vars

(***************************************************************************)
(* Ingestion with callers that give up waiting and repeat their request.   *)
(***************************************************************************)
RetryDocs == {DocSmall1, DocSmall2}

NextRetry ==
    \/ \E r \in Reqs, d \in RetryDocs :
          RowsBelow(MaxSnapshots) /\ createSnapshot_Call(r, "e1", d)
    \/ \E r \in Reqs : createSnapshot_CallerGivesUp(r)
    \/ \E r \in Reqs : RowsBelow(MaxSnapshots) /\ createSnapshot_Retry(r)
    \/ \E r \in Reqs : createSnapshot_GetLatest(r)
    \/ \E r \in Reqs : createSnapshot_Insert(r)
    \/ \E r \in Reqs : createSnapshot_InsertFails(r)
    \/ \E r \in Reqs : createSnapshot_Enqueue(r)
    \/ Tick

SpecRetry == Init /\ [][NextRetry]_vars

(***************************************************************************)
(* Project p1's requests: the rate limiter in front of POST /snapshots,   *)
(* the webhook route and the polling worker.                               *)
(***************************************************************************)
NextGate ==
    \/ \E c \in Callers : checkRateLimit_Incr(c, "p1")
    \/ \E c \in Callers : checkRateLimit_IncrFails(c, "p1")
    \/ \E c \in Callers : checkRateLimit_Expire(c)
    \/ \E c \in Callers : checkRateLimit_ExpireFails(c)
    \/ \E answered \in calls, d \in RetryDocs :
          RowsBelow(MaxSnapshots) /\ rateLimitMiddleware_Next(answered, 1, "e1", d)
    \/ \E answered \in calls : rateLimitMiddleware_Deny(answered)
    \/ \E d \in RetryDocs : RowsBelow(MaxSnapshots) /\ webhooks_Post(1, "e1", d)
    \/ \E d \in RetryDocs : RowsBelow(MaxSnapshots) /\ polling_Job(1, "e1", d)
    \/ createSnapshot_GetLatest(1)
    \/ createSnapshot_Insert(1)
    \/ createSnapshot_Enqueue(1)

SpecGate == Init /\ [][NextGate]_vars

(***************************************************************************)
(* The rate limiter alone: concurrent checkRateLimit calls, Redis, clock.  *)
(***************************************************************************)
NextRate ==
    \/ \E c \in Callers, p \in Projects : checkRateLimit_Incr(c, p)
    \/ \E c \in Callers, p \in Projects : checkRateLimit_IncrFails(c, p)
    \/ \E c \in Callers : checkRateLimit_Expire(c)
    \/ \E c \in Callers : checkRateLimit_ExpireFails(c)
    \/ \E k \in RateKeys : Redis_Expire(k)
    \/ Tick

SpecRate == Init /\ [][NextRate]_vars

(***************************************************************************)
(* Ingestion on one endpoint, its deletion, the queue and the worker.      *)
(***************************************************************************)
WorkerDocs == {DocSmall1, DocSmall2}

WorkerSteps(i) ==
    \/ Worker_Start(i)
    \/ computeDelta_Fetch(i)
    \/ computeDelta_FetchFails(i)
    \/ computeDelta_CreateDelta(i)
    \/ computeDelta_CreateDeltaFails(i)
    \/ Queue_Promote(i)

NextWorker ==
    \/ \E d \in WorkerDocs : RowsBelow(MaxJobs + 1) /\ createSnapshot_Call(1, "e1", d)
    \/ createSnapshot_GetLatest(1)
    \/ createSnapshot_Insert(1)
    \/ createSnapshot_InsertFails(1)
    \/ createSnapshot_Enqueue(1)
    \/ deleteEndpoint("e1")
    \/ \E i \in 1..MaxJobs : WorkerSteps(i)
    \/ Clock_Due

SpecWorker == Init /\ [][NextWorker]_vars

\* Each job's next step (taken by the worker, an attempt ending either way,
\* promotion from the delayed set) is eventually made, and time passes.
WorkerFairness ==
    /\ \A i \in 1..MaxJobs : WF_vars(WorkerSteps(i))
    /\ WF_vars(Clock_Due)

SpecWorkerFair == SpecWorker /\ WorkerFairness

(***************************************************************************)
(* The worker with attempts that fail after their Delta write.             *)
(***************************************************************************)
NextRedelivery ==
    \/ \E d \in WorkerDocs : RowsBelow(MaxSnapshots) /\ createSnapshot_Call(1, "e1", d)
    \/ createSnapshot_GetLatest(1)
    \/ createSnapshot_Insert(1)
    \/ createSnapshot_Enqueue(1)
    \/ \E i \in 1..MaxJobs : WorkerSteps(i) \/ computeDelta_CreateDeltaLost(i)
    \/ Clock_Due

SpecRedelivery == Init /\ [][NextRedelivery]_vars

(***************************************************************************)
(* Ingestion, the worker with every way an attempt can end, deletion of    *)
(* the endpoint, and comparisons on demand.                                *)
(***************************************************************************)
SnapshotIds == 1..(MaxSnapshots + 1)

NextCompare ==
    \/ \E d \in WorkerDocs : RowsBelow(MaxSnapshots) /\ createSnapshot_Call(1, "e1", d)
    \/ createSnapshot_GetLatest(1)
    \/ createSnapshot_Insert(1)
    \/ createSnapshot_Enqueue(1)
    \/ \E i \in 1..MaxJobs : WorkerSteps(i) \/ computeDelta_CreateDeltaLost(i)
    \/ Clock_Due
    \/ deleteEndpoint("e1")
    \/ \E from, to \in SnapshotIds : computeDeltaOnDemand("e1", from, to)

SpecCompare == Init /\ [][NextCompare]_vars

(***************************************************************************)
(* A backlog: one endpoint is sent a changed document at one instant after *)
(* another while the worker process is down; the worker then comes up and  *)
(* works through the queue.                                                *)
(***************************************************************************)
NextPool ==
    \/ \E d \in WorkerDocs :
          /\ RowsBelow(MaxQueued + 1)
          /\ \A s \in getLatestSnapshot("e1") :
                s.data_hash # hashData(d) /\ (s # NoSnapshot => s.timestamp < now)
          /\ createSnapshot_Call(1, "e1", d)
    \/ createSnapshot_GetLatest(1)
    \/ createSnapshot_Insert(1)
    \/ createSnapshot_Enqueue(1)
    \/ /\ req[1].pc = "idle"
       /\ \E s \in snapshots : s.timestamp = now
       /\ Advance({now + 1})
    \/ \E i \in 1..MaxQueued : Len(jobs) = MaxQueued /\ Worker_Start(i)
    \/ \E i \in 1..MaxQueued : computeDelta_Fetch(i)
    \/ \E i \in 1..MaxQueued : computeDelta_CreateDelta(i)

SpecPool == Init /\ [][NextPool]_vars

(***************************************************************************)
(* Claims about createSnapshot.                                            *)
(***************************************************************************)
(***************************************************************************)
(* A stream of documents on two endpoints: concurrent createSnapshot calls *)
(* that may interleave at every await, enqueue failures, and the clock.    *)
(***************************************************************************)
StreamDocs == {DocSmall1, DocSmall2, DocSmall3}

NextStream ==
    \/ \E r \in Reqs, e \in Endpoints, d \in StreamDocs :
          RowsBelow(MaxStream) /\ createSnapshot_Call(r, e, d)
    \/ \E r \in Reqs : createSnapshot_GetLatest(r)
    \/ \E r \in Reqs : createSnapshot_Insert(r)
    \/ \E r \in Reqs : createSnapshot_Enqueue(r)
    \/ \E r \in Reqs : createSnapshot_EnqueueFails(r)
    \/ Tick

SpecStream == Init /\ [][NextStream]_vars

MaxSizeBytes == MAX_SNAPSHOT_SIZE_MB * BytesPerMB

\* The newest rows of an endpoint, as the table holds them.
NewestRows(endpointId) ==
    {s \in snapshots : /\ s.endpoint_id = endpointId
                       /\ \A o \in snapshots :
                            o.endpoint_id = endpointId => o.timestamp <= s.timestamp}

\* Call r returns in this step.
ReturnsNow(r) == req[r].pc # "idle" /\ req'[r].pc = "idle"

\* C1: when the endpoint's latest snapshot exists, carries the hash of the
\* submitted data and is younger than one hour at the moment the call has
\* read it, the call returns that snapshot with isDuplicate = true and
\* queuedForDelta = false, having written no row and queued no job.
C1_DedupRule ==
    [][\A r \in Reqs :
         LET newest == NewestRows(req[r].endpoint_id)
         IN  ( /\ req[r].pc = "getLatest"
               /\ req'[r] # req[r]
               /\ ~(req'[r].pc = "idle" /\ result'.error = "storage")
               /\ newest # {}
               /\ \A s \in newest : /\ s.data_hash = hashData(req[r].data)
                                    /\ now - s.timestamp < DEDUP_WINDOW_MS )
             => /\ ReturnsNow(r)
                /\ result'.pc = "done"
                /\ result'.snapshot \in newest
                /\ result'.isDuplicate = TRUE
                /\ result'.queuedForDelta = FALSE
                /\ result'.writes = 0 /\ result'.enqueues = 0
                /\ snapshots' = snapshots
                /\ jobs' = jobs]_vars

\* A duplicate was returned for a snapshot that is nearly one hour old.
C1_Witness ==
    /\ result.pc = "done"
    /\ result.isDuplicate
    /\ now - result.snapshot.timestamp = DEDUP_WINDOW_MS - 1
    /\ result.snapshot \in snapshots

JobsFor(q, snapshotId) == {j \in 1..Len(q) : q[j].snapshot_id = snapshotId}

\* C2: a call that persisted a new snapshot after reading a previous one, and
\* whose enqueue did not fail, has queued exactly one job, and that job
\* references (previous.id, new.id) under the endpoint; this includes equal
\* hashes outside the dedup window.  A call that read no previous snapshot
\* queues nothing and reports queuedForDelta = false.
C2_EnqueueRule ==
    (result.pc = "done" /\ ~result.isDuplicate)
    => /\ result.writes = 1
       /\ result.snapshot \in snapshots
       /\ (result.latest # NoSnapshot /\ result.logged = "")
            => /\ result.queuedForDelta = TRUE
               /\ result.enqueues = 1
               /\ Cardinality(JobsFor(jobs, result.snapshot.id)) = 1
               /\ \A j \in JobsFor(jobs, result.snapshot.id) :
                     /\ jobs[j].previous_snapshot_id = result.latest.id
                     /\ jobs[j].endpoint_id = result.endpoint_id
               /\ result.latest.endpoint_id = result.endpoint_id
               /\ result.latest.id # result.snapshot.id
       /\ result.latest = NoSnapshot
            => /\ result.queuedForDelta = FALSE
               /\ result.enqueues = 0
               /\ JobsFor(jobs, result.snapshot.id) = {}

\* A job was queued although the new snapshot has the hash of the previous
\* one (which was outside the dedup window).
C2_Witness ==
    /\ result.pc = "done"
    /\ result.queuedForDelta
    /\ result.latest.data_hash = result.dataHash
    /\ \E j \in 1..Len(jobs) :
          /\ jobs[j].snapshot_id = result.snapshot.id
          /\ jobs[j].previous_snapshot_id = result.latest.id

\* C3: once the new snapshot is persisted the call cannot fail: an enqueue
\* that fails leaves a normal return with the new snapshot, isDuplicate =
\* false and queuedForDelta = false, the row in place and no job for it.
C3_EnqueueFailureSwallowed ==
    /\ result.pc = "failed" => (result.writes = 0 /\ result.error # "queue")
    /\ (result.pc = "done" /\ result.writes = 1 /\ result.latest # NoSnapshot
           /\ result.enqueues = 0)
       => /\ result.error = ""
          /\ result.snapshot \in snapshots
          /\ result.snapshot.data_hash = hashData(result.data)
          /\ result.isDuplicate = FALSE
          /\ result.queuedForDelta = FALSE
          /\ JobsFor(jobs, result.snapshot.id) = {}

\* A call returned normally after its enqueue failed.
C3_Witness ==
    /\ result.pc = "done"
    /\ result.logged = "queue"
    /\ result.snapshot \in snapshots
    /\ result.latest # NoSnapshot
    /\ \A j \in 1..Len(jobs) : jobs[j].snapshot_id # result.snapshot.id

\* C4: a payload whose serialized size exceeds the maximum is rejected with
\* an error before it is hashed and before the latest snapshot is read, with
\* no row written and no job queued; a payload at or below the maximum is
\* never rejected for its size, and no oversized payload gets past the check.
C4_OversizedRejected ==
    /\ result.error = "too_large"
       => /\ result.pc = "failed"
          /\ StringifyLen(result.data) > MaxSizeBytes
          /\ result.dataHash = NoHash
          /\ result.latest = NoSnapshot
          /\ result.writes = 0 /\ result.enqueues = 0
    /\ result.pc # "idle" /\ StringifyLen(result.data) > MaxSizeBytes
       => result.error = "too_large"
    /\ \A r \in Reqs :
          req[r].pc # "idle" => StringifyLen(req[r].data) <= MaxSizeBytes
    /\ \A s \in snapshots : s.size_bytes <= MaxSizeBytes

\* An oversized payload was rejected while a payload of exactly the maximum
\* size is stored.
C4_Witness ==
    /\ result.error = "too_large"
    /\ StringifyLen(result.data) = MaxSizeBytes + 1
    /\ \E s \in snapshots : s.size_bytes = MaxSizeBytes

(***************************************************************************)
(* Rate limiter                                                            *)
(***************************************************************************)
\* The calls that returned for a key.
CallsOf(key) == {e \in calls : e.key = key}

\* The counter store worked for every call issued so far for the key.
StoreWorked(key) == \A e \in CallsOf(key) : ~e.failed

Min(a, b) == IF a < b THEN a ELSE b

\* C5: while the counter store works, the k-th checkRateLimit call of a
\* project inside one hourly window returns allowed = (k <= limit of the
\* project's tier) and remaining = max(0, limit - k) with that limit; and
\* every call, allowed or denied, has incremented the window's counter, which
\* during the window equals the number of calls issued.
C5_RateLimitCounting ==
    \A key \in RateKeys :
        StoreWorked(key) =>
            /\ \A e \in CallsOf(key) :
                  LET limit == RATE_LIMITS[TierOf[key[1]]]
                  IN  /\ e.answer.allowed = (e.ord <= limit)
                      /\ e.answer.remaining = (IF e.ord >= limit THEN 0 ELSE limit - e.ord)
                      /\ e.answer.limit = limit
                      /\ e.answer.error = ""
            /\ key[2] = getCurrentWindow => counters[key] = Issued(key)

\* C5 case: limit 3, four calls in one window answered allowed true, true,
\* true, false with remaining 2, 1, 0, 0; the denied call was counted too.
C5_Witness ==
    /\ RATE_LIMITS[TierOf["p2"]] = 3
    /\ {<<e.ord, e.answer.allowed, e.answer.remaining>> : e \in CallsOf(<<"p2", 0>>)}
           = {<<1, TRUE, 2>>, <<2, TRUE, 1>>, <<3, TRUE, 0>>, <<4, FALSE, 0>>}
    /\ StoreWorked(<<"p2", 0>>)
    /\ counters[<<"p2", 0>>] = 4

\* C6: a checkRateLimit call during which a counter-store operation failed
\* returns allowed = true, remaining = the tier's limit and that limit, and
\* returns it as a value, never as an error.
C6_FailOpen ==
    \A e \in calls :
        e.failed =>
            /\ e.answer.allowed = TRUE
            /\ e.answer.remaining = RATE_LIMITS[TierOf[e.key[1]]]
            /\ e.answer.limit = RATE_LIMITS[TierOf[e.key[1]]]
            /\ e.answer.error = ""

\* C6 case: the store failed for a call beyond the limit, and for a call
\* whose increment had been applied; both were allowed.
C6_Witness ==
    /\ \E e \in calls : e.failed /\ e.count = 0 /\ e.ord > e.answer.limit /\ e.answer.allowed
    /\ \E e \in calls : e.failed /\ e.count = 1 /\ e.answer.allowed

\* C7: when N concurrent checkRateLimit calls for one project and window
\* have all returned and the store worked, the counter is N (during the
\* window), the calls observed exactly the values 1..N, one each, and exactly
\* min(N, limit) of them were allowed.
C7_NoLostUpdates ==
    \A key \in RateKeys :
        (StoreWorked(key) /\ \A c \in Callers : rl[c].key # key) =>
            LET N == Cardinality(CallsOf(key))
                limit == RATE_LIMITS[TierOf[key[1]]]
            IN  /\ key[2] = getCurrentWindow => counters[key] = N
                /\ {e.count : e \in CallsOf(key)} = 1..N
                /\ \A e, f \in CallsOf(key) : e.count = f.count => e = f
                /\ Cardinality({e \in CallsOf(key) : e.answer.allowed}) = Min(N, limit)

\* C7 case: three calls overlapped on a project with limit 2; the call that
\* observed 1 returned after the other two had incremented the key.
C7_Witness ==
    /\ RATE_LIMITS[TierOf["p1"]] = 2
    /\ Cardinality(CallsOf(<<"p1", 0>>)) = 3
    /\ StoreWorked(<<"p1", 0>>)
    /\ \A c \in Callers : rl[c].pc = "idle"
    /\ \E e \in CallsOf(<<"p1", 0>>) :
          e.count = 1 /\ e.overtaken /\ counters[e.key] = 3
    /\ Cardinality({e \in CallsOf(<<"p1", 0>>) : e.answer.allowed}) = 2

(***************************************************************************)
(* Delta jobs                                                              *)
(***************************************************************************)
JobSlots == 1..MaxJobs

\* The Delta rows written for job i.
DeltasOf(i) == {d \in deltas : d.id[1] = i}

\* C8: a job whose attempt found one of its snapshots missing goes to the
\* failed set after that attempt, is not attempted again, and no Delta row
\* is written for it.
C8_MissingSnapshotNotRetried ==
    \A i \in JobIds :
        jobs[i].failedReason = "not_found" =>
            /\ jobs[i].state = "failed"
            /\ DeltasOf(i) = {}

\* C9: a job is attempted at most 3 times; a failed 1st or 2nd attempt
\* delays the job by 1000 ms and then twice that, counted from the failure,
\* and the job waits out the delay; a job whose 3rd attempt failed is in the
\* failed set;
\* and a job leaves the queue only from the completed or failed set, past its
\* retention (24 hours for the failed set).
C9_BoundedRetry ==
    /\ [](\A i \in JobIds :
            LET job == jobs[i]
                n == Len(job.delays)
            IN  /\ job.attemptsMade <= 3
                /\ job.state = "active" => job.attemptsMade <= 2
                /\ n <= 2
                /\ n >= 1 => job.delays[1] = 1000
                /\ n = 2 => job.delays[2] = 2 * job.delays[1]
                /\ job.state = "delayed" => n = job.attemptsMade
                /\ job.attemptsMade = 3 => job.state \in {"failed", "completed"}
                /\ job.state = "failed" => job.attemptsMade = 3
                /\ (job.state = "failed" /\ now <= job.finishedOn + 86400 * 1000)
                      => job.stored
                /\ ~job.stored => job.state \in {"failed", "completed"})
    /\ [][\A i \in JobIds :
            /\ (jobs[i].state = "active" /\ jobs'[i].state \notin {"active", "completed"}) =>
                  IF jobs[i].attemptsMade < 2
                  THEN /\ jobs'[i].state = "delayed"
                       /\ jobs'[i].delayUntil = now + 1000 * 2 ^ jobs[i].attemptsMade
                  ELSE jobs'[i].state = "failed" /\ jobs'[i].stored
            /\ (jobs[i].state = "delayed" /\ jobs'[i].state # "delayed") =>
                  (jobs'[i].state = "wait" /\ now >= jobs[i].delayUntil)]_vars

\* C9 case: the Delta write failed three times, 1000 ms and 2000 ms apart at
\* least; the job sits in the failed set while time has moved on.
C9_Witness ==
    \E i \in JobIds :
        /\ jobs[i].state = "failed" /\ jobs[i].stored
        /\ jobs[i].failedReason = "storage_write"
        /\ jobs[i].attemptsMade = 3
        /\ jobs[i].delays = <<1000, 2000>>
        /\ jobs[i].finishedOn >= 3000
        /\ now > jobs[i].finishedOn

\* The state of a job in the words of the job state machine.
Phase(job) ==
    CASE job.state = "active" -> "Processing"
      [] job.state = "completed" -> "Completed"
      [] job.state = "failed" -> "DeadLettered"
      [] job.state = "delayed" -> "Retrying"
      [] job.state = "wait" /\ job.attemptsMade > 0 -> "Retrying"
      [] OTHER -> "Received"

Moves ==
    {<<"Received", "Processing">>, <<"Processing", "Completed">>,
     <<"Processing", "Retrying">>, <<"Retrying", "Processing">>,
     <<"Processing", "DeadLettered">>}

\* C10: a job starts as Received and changes state only along Received ->
\* Processing -> Completed, Processing -> Retrying -> Processing, and
\* Processing -> DeadLettered, so Completed and DeadLettered are final; and
\* with the worker, the queue and the clock making progress every enqueued
\* job eventually is Completed or DeadLettered.
C10_JobStateMachine ==
    /\ [][\A i \in JobSlots :
            /\ (i \in JobIds) =>
                  /\ i \in DOMAIN jobs'
                  /\ \/ Phase(jobs'[i]) = Phase(jobs[i])
                     \/ <<Phase(jobs[i]), Phase(jobs'[i])>> \in Moves
            /\ (i \notin JobIds /\ i \in DOMAIN jobs') => Phase(jobs'[i]) = "Received"]_vars
    /\ \A i \in JobSlots :
          (i \in JobIds) ~> (i \in JobIds /\ Phase(jobs[i]) \in {"Completed", "DeadLettered"})

\* C10 case: one job was retried and then completed, another used up its
\* attempts and is dead-lettered.
C10_Witness ==
    \E i, k \in JobIds :
        /\ Phase(jobs[i]) = "Completed" /\ jobs[i].attemptsMade = 2
        /\ Phase(jobs[k]) = "DeadLettered" /\ jobs[k].attemptsMade = 3

\* C11: no two Delta rows have the same ordered pair (from_snapshot_id,
\* to_snapshot_id), also when a job is run again after its Delta write.
C11_OneDeltaPerPair ==
    \A d1, d2 \in deltas :
        (d1.from_snapshot_id = d2.from_snapshot_id
            /\ d1.to_snapshot_id = d2.to_snapshot_id) => d1 = d2

(***************************************************************************)
(* Ingestion under concurrency and retry                                   *)
(***************************************************************************)
\* Row p was written before row s on the same endpoint (by timestamp, then
\* by id).
Before(p, s) ==
    /\ p.endpoint_id = s.endpoint_id
    /\ \/ p.timestamp < s.timestamp
       \/ (p.timestamp = s.timestamp /\ p.id < s.id)

\* Row p is the endpoint's snapshot immediately preceding row s.
Preceding(p, s) ==
    /\ Before(p, s)
    /\ \A o \in snapshots : (Before(o, s) /\ o # p) => Before(o, p)

\* C12: no Snapshot row has the hash of the endpoint's immediately
\* preceding Snapshot while their timestamps are less than the dedup
\* interval apart, and no job exists for such a pair, whatever the
\* interleaving of concurrent createSnapshot calls.
C12_DedupInvariant ==
    LET Twin(p, s) == /\ s.data_hash = p.data_hash
                      /\ s.timestamp - p.timestamp < DEDUP_WINDOW_MS
    IN  /\ ~ \E p, s \in snapshots : Preceding(p, s) /\ Twin(p, s)
        /\ ~ \E i \in DOMAIN jobs : \E p, s \in snapshots :
                /\ Before(p, s) /\ Twin(p, s)
                /\ jobs[i].previous_snapshot_id = p.id
                /\ jobs[i].snapshot_id = s.id

\* The Snapshot rows of an endpoint that carry a hash.
RowsWith(endpointId, dataHash) ==
    {s \in SnapshotsOf(endpointId) : s.data_hash = dataHash}

\* C13: when a caller gave up on a createSnapshot call and repeated it with
\* the same endpoint and payload, within the dedup interval and with no other
\* payload stored for the endpoint in between, then once the repeated call
\* has returned there is exactly one Snapshot row for the payload (the row
\* it returned) and at most one job for it.
C13_RetrySafe ==
    LET rows == RowsWith(result.endpoint_id, result.dataHash)
    IN  (/\ result.retry /\ result.pc = "done"
         /\ SnapshotsOf(result.endpoint_id) = rows
         /\ \A s \in rows : now - s.timestamp < DEDUP_WINDOW_MS)
        => /\ rows = {result.snapshot}
           /\ Cardinality({i \in DOMAIN jobs :
                  \E s \in rows : jobs[i].snapshot_id = s.id}) <= 1

\* C14: every execution of createSnapshot, from whichever entry point, came
\* through a checkRateLimit answer with allowed = true for the project; and
\* after an answer with allowed = false the request ends with 429 and no
\* createSnapshot call is made for it.
C14_RateLimitGatesIngest ==
    /\ \A r \in Reqs : req[r].pc # "idle" => req[r].gate = "allowed"
    /\ result.pc # "idle" => result.gate = "allowed"
    /\ \A answered \in calls : answered.next = "passed" => answered.answer.allowed

(***************************************************************************)
(* hashData                                                                *)
(***************************************************************************)
\* The logical content of a document: every object's members in sorted key
\* order at every depth, nothing left out, arrays and primitives as they are.
RECURSIVE Canonical(_)
Canonical(v) ==
    CASE v.t = "obj" ->
            LET keys == SelectSeq(KeyOrder, LAMBDA k : k \in {v.c[i].k : i \in 1..Len(v.c)})
            IN  Obj([i \in 1..Len(keys) |->
                       KV(keys[i],
                          Canonical(v.c[CHOOSE j \in 1..Len(v.c) : v.c[j].k = keys[i]].v))])
      [] v.t = "arr" -> Arr([i \in 1..Len(v.c) |-> Canonical(v.c[i])])
      [] OTHER -> v

\* The createSnapshot calls that have hashed their payload: those running,
\* and the one that returned last.
Hashed == {req[r] : r \in {q \in Reqs : req[q].pc # "idle"}}
              \cup (IF result.dataHash # NoHash THEN {result} ELSE {})

\* C15: two documents that differ only in the order of object keys, at any
\* depth, have the same hashData; the same document always has the same hash.
C15_HashKeyOrderIndependent ==
    \A c1, c2 \in Hashed :
        Canonical(c1.data) = Canonical(c2.data) => c1.dataHash = c2.dataHash

\* C15 case: two payloads whose keys are ordered differently inside a nested
\* object were hashed, and hashed alike.
C15_Witness ==
    \E c1, c2 \in Hashed :
        /\ c1.data = DocInner /\ c2.data = DocInnerReordered
        /\ Canonical(c1.data) = Canonical(c2.data)
        /\ c1.dataHash = c2.dataHash

\* C16: two documents whose logical content differs (a key, a value, a
\* primitive type, the order of an array, at any depth) have different
\* hashData.
C16_HashDistinguishes ==
    \A c1, c2 \in Hashed :
        Canonical(c1.data) # Canonical(c2.data) => c1.dataHash # c2.dataHash

(***************************************************************************)
(* lib/diff                                                                *)
(***************************************************************************)
\* The stored snapshot a Delta row points at.
RowOf(id) == CHOOSE s \in snapshots : s.id = id
FromData(d) == RowOf(d.from_snapshot_id).data
ToData(d) == RowOf(d.to_snapshot_id).data

\* C17: the diff of a document against itself, or against a structurally
\* equal one, is the empty patch.
C17_DiffOfEqualIsEmpty ==
    \A d \in deltas :
        Canonical(FromData(d)) = Canonical(ToData(d))
            => d.diff = <<>> /\ d.changes_count = 0

\* C17 case: a Delta was computed between two snapshots that hold the same
\* nested document.
C17_Witness ==
    \E d \in deltas :
        /\ FromData(d) = Jsonb(DocNested1) /\ ToData(d) = Jsonb(DocNested1)
        /\ d.diff = <<>>

\* C18: calculateSimilarity gives 1.0 exactly when the two documents have
\* the same canonical serialization (keys sorted at every depth, all content
\* kept); documents that differ anywhere score below 1.0.
C18_SimilarityOneIffEqual ==
    \A d \in deltas :
        (d.similarity_score.num = d.similarity_score.den)
            <=> (Canonical(FromData(d)) = Canonical(ToData(d)))

\* JSON Patch (RFC 6902) add, remove and replace, applied to a document.
\* A target that does not exist makes the result PatchError.
PatchError == [t |-> "error", n |-> 0, s |-> NoStr, c |-> <<>>]
IsIndex(k) == k \in {IndexName(i) : i \in 0..3}
IndexOf(k) == CHOOSE i \in 0..3 : IndexName(i) = k
Without(q, i) == [j \in 1..(Len(q) - 1) |-> IF j < i THEN q[j] ELSE q[j + 1]]
InsertAt(q, i, x) ==
    [j \in 1..(Len(q) + 1) |-> IF j < i THEN q[j] ELSE IF j = i THEN x ELSE q[j - 1]]

RECURSIVE ApplyOperation(_, _, _, _)
ApplyOperation(doc, op, path, value) ==
    IF doc.t = "error" THEN doc
    ELSE IF path = <<>>
    THEN (IF op = "remove" THEN PatchError ELSE value)
    ELSE LET key == Head(path)
             rest == Tail(path)
             present == key \in ObjectKeys(doc)
         IN  CASE doc.t = "obj" ->
                    LET at == Member(doc, key)
                    IN  IF rest # <<>>
                        THEN IF ~present THEN PatchError
                             ELSE LET child == ApplyOperation(doc.c[at].v, op, rest, value)
                                  IN  IF child.t = "error" THEN PatchError
                                      ELSE Obj([doc.c EXCEPT ![at].v = child])
                        ELSE CASE op = "add" ->
                                    IF present THEN Obj([doc.c EXCEPT ![at].v = value])
                                    ELSE Obj(Append(doc.c, KV(key, value)))
                               [] op = "remove" ->
                                    IF present THEN Obj(Without(doc.c, at)) ELSE PatchError
                               [] OTHER ->
                                    IF present THEN Obj([doc.c EXCEPT ![at].v = value])
                                    ELSE PatchError
               [] doc.t = "arr" ->
                    IF ~IsIndex(key) THEN PatchError
                    ELSE LET at == IndexOf(key) + 1
                         IN  IF rest # <<>>
                             THEN IF ~present THEN PatchError
                                  ELSE LET child == ApplyOperation(doc.c[at], op, rest, value)
                                       IN  IF child.t = "error" THEN PatchError
                                           ELSE Arr([doc.c EXCEPT ![at] = child])
                             ELSE CASE op = "add" ->
                                         IF at <= Len(doc.c) + 1
                                         THEN Arr(InsertAt(doc.c, at, value))
                                         ELSE PatchError
                                    [] op = "remove" ->
                                         IF present THEN Arr(Without(doc.c, at))
                                         ELSE PatchError
                                    [] OTHER ->
                                         IF present THEN Arr([doc.c EXCEPT ![at] = value])
                                         ELSE PatchError
               [] OTHER -> PatchError

RECURSIVE ApplyPatch(_, _)
ApplyPatch(doc, patch) ==
    IF patch = <<>> THEN doc
    ELSE ApplyPatch(ApplyOperation(doc, Head(patch).op, Head(patch).path,
                                   Head(patch).value),
                    Tail(patch))

\* C19: applying the operations of computeDiff(a, b) to a, in the order they
\* were emitted, gives a document equal to b.
C19_DiffRoundTrip ==
    \A d \in deltas :
        Canonical(ApplyPatch(FromData(d), d.diff)) = Canonical(ToData(d))

\* C20: the additions, deletions and modifications of categorizeChanges add
\* up to its total, which is countChanges of the diff; they count the add,
\* remove and replace operations.
C20_CategoriesExhaustive ==
    \A d \in deltas :
        LET c == categorizeChanges(d.diff)
        IN  /\ c.additions + c.deletions + c.modifications = c.total
            /\ c.total = d.changes_count
            /\ c.additions = Count(d.diff, {"add"})
            /\ c.deletions = Count(d.diff, {"remove"})
            /\ c.modifications = Count(d.diff, {"replace"})

\* C20 case: a stored diff with an operation of each kind.
C20_Witness ==
    \E d \in deltas :
        /\ Count(d.diff, {"add"}) > 0
        /\ Count(d.diff, {"remove"}) > 0
        /\ Count(d.diff, {"replace"}) > 0
        /\ categorizeChanges(d.diff).total = 3

\* The operations of a diff at a path, and those strictly below it.
OpsAt(diff, path) == SelectSeq(diff, LAMBDA o : o.path = path)
OpsBelow(diff, path) ==
    SelectSeq(diff, LAMBDA o : /\ Len(o.path) > Len(path)
                               /\ SubSeq(o.path, 1, Len(path)) = path)
IsScalar(v) == v.t \in {"num", "str"}

\* C21: between two objects the diff has exactly one add, carrying the new
\* value, for each key only the new document has, exactly one remove for
\* each key only the old document has, exactly one replace, carrying the new
\* value, for each shared key with unequal scalars, and nothing for a shared
\* key whose subtrees are equal.
C21_ObjectDiff ==
    \A d \in deltas :
        LET a == FromData(d)
            b == ToData(d)
        IN  (a.t = "obj" /\ b.t = "obj") =>
                \A k \in ObjectKeys(a) \cup ObjectKeys(b) :
                    LET at == OpsAt(d.diff, <<k>>)
                        below == OpsBelow(d.diff, <<k>>)
                    IN  /\ (k \notin ObjectKeys(a)) =>
                              /\ at = <<Operation("add", <<k>>, Prop(b, k))>>
                              /\ below = <<>>
                        /\ (k \notin ObjectKeys(b)) =>
                              /\ at = <<Operation("remove", <<k>>, NoValue)>>
                              /\ below = <<>>
                        /\ (k \in ObjectKeys(a) /\ k \in ObjectKeys(b)) =>
                              /\ (IsScalar(Prop(a, k)) /\ IsScalar(Prop(b, k))
                                     /\ Prop(a, k) # Prop(b, k)) =>
                                    at = <<Operation("replace", <<k>>, Prop(b, k))>>
                              /\ (Prop(a, k) = Prop(b, k)) =>
                                    at = <<>> /\ below = <<>>

\* C21 case: a stored diff between two objects with a key only the old one
\* has, a key only the new one has, and a shared key whose number changed.
C21_Witness ==
    \E d \in deltas :
        /\ FromData(d) = Jsonb(DocSmall2) /\ ToData(d) = Jsonb(DocSmall3)
        /\ OpsAt(d.diff, <<"p">>) = <<Operation("add", <<"p">>, Num(1))>>
        /\ OpsAt(d.diff, <<"b">>) = <<Operation("remove", <<"b">>, NoValue)>>
        /\ OpsAt(d.diff, <<"a">>) = <<Operation("replace", <<"a">>, Num(3))>>

\* The value of a document at a path (of at most one token here), if any.
HasAt(doc, path) == path = <<>> \/ path[1] \in ObjectKeys(doc)
ValueAt(doc, path) == IF path = <<>> THEN doc ELSE Prop(doc, path[1])
ArrayPaths(a, b) ==
    {p \in {<<>>} \cup {<<KeyOrder[i]>> : i \in 1..Len(KeyOrder)} :
        /\ HasAt(a, p) /\ HasAt(b, p)
        /\ ValueAt(a, p).t = "arr" /\ ValueAt(b, p).t = "arr"}

\* C22: between two arrays the diff is positional: a replace for each index
\* both have whose items differ, an add for each trailing index only the new
\* array has, a remove for each trailing index only the old array has; no
\* other kind of operation is ever emitted.
C22_ArrayDiffPositional ==
    \A d \in deltas :
        /\ \A i \in 1..Len(d.diff) : d.diff[i].op \in {"add", "remove", "replace"}
        /\ \A p \in ArrayPaths(FromData(d), ToData(d)) :
              LET old == ValueAt(FromData(d), p).c
                  new == ValueAt(ToData(d), p).c
                  longest == IF Len(old) > Len(new) THEN Len(old) ELSE Len(new)
              IN  \A i \in 1..longest :
                    LET at == OpsAt(d.diff, p \o <<IndexName(i - 1)>>)
                    IN  /\ (i <= Len(old) /\ i <= Len(new)) =>
                              at = IF old[i] # new[i]
                                   THEN <<Operation("replace", p \o <<IndexName(i - 1)>>,
                                                    new[i])>>
                                   ELSE <<>>
                        /\ (i > Len(old)) =>
                              at = <<Operation("add", p \o <<IndexName(i - 1)>>, new[i])>>
                        /\ (i > Len(new)) =>
                              at = <<Operation("remove", p \o <<IndexName(i - 1)>>,
                                               NoValue)>>

\* C22 case: stored diffs between two arrays: the same items in another
\* order, and an array cut from three items to one.
C22_Witness ==
    \E d \in deltas :
        \/ /\ FromData(d) = DocRootList /\ ToData(d) = DocRootList21
           /\ d.diff = <<Operation("replace", <<"0">>, Num(2)),
                         Operation("add", <<"1">>, Num(1))>>
        \/ /\ FromData(d) = DocList12 /\ ToData(d) = DocList21
           /\ Len(d.diff) = 2
           /\ \A i \in 1..2 : d.diff[i].op = "replace"

\* The paths at which the two documents hold values of different kinds: an
\* object against an array, or a container against a scalar.
TypeChangePaths(a, b) ==
    {p \in {<<>>} \cup {<<KeyOrder[i]>> : i \in 1..Len(KeyOrder)} :
        /\ HasAt(a, p) /\ HasAt(b, p)
        /\ (IsScalar(ValueAt(a, p)) /\ IsScalar(ValueAt(b, p))) = FALSE
        /\ ValueAt(a, p).t # ValueAt(b, p).t}

\* C23: where the old and the new value at a path differ in type, at the
\* root or below it, the diff has exactly one replace at that path, carrying
\* the whole new value, and nothing below that path.
C23_TypeChangeDiff ==
    \A d \in deltas :
        \A p \in TypeChangePaths(FromData(d), ToData(d)) :
            /\ OpsAt(d.diff, p) = <<Operation("replace", p, ValueAt(ToData(d), p))>>
            /\ OpsBelow(d.diff, p) = <<>>

\* Path p comes before path q when keys are taken in sorted order and array
\* indices ascending.
Position(k) == CHOOSE i \in 1..Len(KeyOrder) : KeyOrder[i] = k
RECURSIVE PathBefore(_, _)
PathBefore(p, q) ==
    IF q = <<>> THEN FALSE
    ELSE IF p = <<>> THEN TRUE
    ELSE IF Head(p) = Head(q) THEN PathBefore(Tail(p), Tail(q))
    ELSE Position(Head(p)) < Position(Head(q))

\* C24: the sequence of operations depends only on the content of the two
\* documents: it is the one computeDiff gives for their canonical forms, and
\* it follows the sorted order of the keys and the ascending order of the
\* indices (among the operations on what the old document has, and among
\* the additions).
C24_DiffOrderDeterministic ==
    \A d \in deltas :
        /\ d.diff = computeDiff(Canonical(FromData(d)), Canonical(ToData(d)))
        /\ \A i, j \in 1..Len(d.diff) :
              (i < j /\ (d.diff[i].op = "add") = (d.diff[j].op = "add"))
                  => ~PathBefore(d.diff[j].path, d.diff[i].path)

\* C25: a similarity score lies in [0, 1]: the common length is at least 0
\* and at most the length of the longer serialization.
C25_SimilarityRange ==
    \A d \in deltas :
        /\ d.similarity_score.den > 0
        /\ 0 <= d.similarity_score.num
        /\ d.similarity_score.num <= d.similarity_score.den

\* C25 case: a stored score strictly between 0 and 1, computed by the
\* longest common substring of two serializations of different lengths.
C25_Witness ==
    \E d \in deltas :
        /\ FromData(d) = Jsonb(DocSmall1) /\ ToData(d) = Jsonb(DocSmall2)
        /\ d.similarity_score = Score(5, 13)

(***************************************************************************)
(* Claims about the order of delta jobs, on-demand comparison and the      *)
(* worker pool.                                                            *)
(***************************************************************************)
\* The Delta rows job i has written.
RowsOfJob(i) ==
    {d \in deltas : /\ d.from_snapshot_id = jobs[i].previous_snapshot_id
                    /\ d.to_snapshot_id = jobs[i].snapshot_id}

\* C26: in whatever order and interleaving the worker processes the jobs of
\* an endpoint, each finished job has left exactly one Delta row for its
\* pair, and every Delta row holds the operations, the count and the
\* similarity of its own two snapshots: the rows that processing the jobs in
\* the order of their snapshots gives.
C26_OrderIndependent ==
    /\ \A d \in deltas :
          \E from, to \in snapshots :
              /\ from.id = d.from_snapshot_id /\ to.id = d.to_snapshot_id
              /\ d.diff = computeDiff(from.data, to.data)
              /\ d.changes_count = countChanges(d.diff)
              /\ d.similarity_score = calculateSimilarity(from.data, to.data)
    /\ \A i \in DOMAIN jobs :
          (jobs[i].stored /\ jobs[i].state = "completed"
              /\ jobs[i].endpoint_id \in endpoints)
              => Cardinality(RowsOfJob(i)) = 1

\* C26 case: the second job of an endpoint has finished and written its row
\* while the first has not been started.
C26_Witness ==
    /\ Len(jobs) = 2
    /\ jobs[1].state = "wait" /\ jobs[1].attemptsMade = 0
    /\ jobs[2].state = "completed"
    /\ Cardinality(RowsOfJob(2)) = 1
    /\ RowsOfJob(1) = {}

\* C27: a comparison on demand, found or not found, leaves the Snapshot
\* rows, the Delta rows and the job queue as they were.
C27_OnDemandDoesNotPersist ==
    [][compared' # compared => UNCHANGED <<snapshots, deltas, jobs>>]_vars

\* C27 case: a comparison of two stored snapshots in the direction no job
\* computes was answered, while the endpoint has a job and a Delta row.
C27_Witness ==
    /\ compared.status = "ok"
    /\ compared.from_snapshot_id = 2 /\ compared.to_snapshot_id = 1
    /\ compared.changes_count > 0
    /\ Len(jobs) = 1
    /\ Cardinality(deltas) = 1
    /\ \A d \in deltas : d.from_snapshot_id = 1 /\ d.to_snapshot_id = 2

\* C30: a Snapshot row, once created, stays in the table with every field
\* as it was written, through later ingests, delta computation, retries,
\* dead-lettering and comparisons on demand (every step but the deletion of
\* its endpoint).
C30_SnapshotsImmutable ==
    [][endpoints' = endpoints => \A s \in snapshots : s \in snapshots']_vars

\* C30 case: the first snapshot of an endpoint is still there, as written,
\* after a second ingest, a job that was dead-lettered and a comparison.
C30_Witness ==
    /\ \E s \in snapshots : s.id = 1 /\ s.timestamp = 0 /\ s.endpoint_id = "e1"
    /\ \E s \in snapshots : s.id = 2
    /\ \E i \in DOMAIN jobs : jobs[i].state = "failed"
    /\ compared.status = "ok"

\* C28: at most 5 delta jobs are being processed at the same time, however
\* many are queued.
C28_BoundedConcurrency == Cardinality(Active) <= 5

\* C28 case: five jobs are being processed and a sixth waits in the queue.
C28_Witness ==
    /\ Cardinality(Active) = 5
    /\ \E i \in JobIds : jobs[i].stored /\ jobs[i].state = "wait"

\* C29: rate windows are ephemeral.  Every window counter that exists, once
\* the checkRateLimit call that created it is no longer between its increment
\* and its expiry call, carries an expiry (and so is removed when the window
\* length has passed), also when redis.expire failed.
C29_WindowsEphemeral ==
    \A key \in RateKeys :
        (/\ counters[key] > 0
         /\ ~\E c \in Callers : rl[c].pc = "expire" /\ rl[c].key = key)
            => ttl[key] # NoExpiry

\* The calls for a key that were answered allowed = true.
Admitted(key) == {e \in CallsOf(key) : e.answer.allowed}

\* C31: while the counter store works, at most limit checkRateLimit calls of
\* a project are answered allowed = true inside one hourly window, and so at
\* most 2 x limit across two adjacent windows.
C31_FixedWindowBound ==
    \A key \in RateKeys :
        LET limit == RATE_LIMITS[TierOf[key[1]]]
            next == <<key[1], key[2] + 1>>
        IN  /\ StoreWorked(key) => Cardinality(Admitted(key)) <= limit
            /\ (next \in RateKeys /\ StoreWorked(key) /\ StoreWorked(next))
                  => Cardinality(Admitted(key)) + Cardinality(Admitted(next)) <= 2 * limit

\* C31 case: a burst across the hour boundary; project p1 (limit 2) had two
\* calls admitted and one denied in the first hour and two more admitted in
\* the second: 2 x limit admissions.
C31_Witness ==
    /\ RATE_LIMITS[TierOf["p1"]] = 2
    /\ now = HourMs
    /\ StoreWorked(<<"p1", 0>>) /\ StoreWorked(<<"p1", 1>>)
    /\ Cardinality(Admitted(<<"p1", 0>>)) = 2
    /\ \E e \in CallsOf(<<"p1", 0>>) : ~e.answer.allowed
    /\ Cardinality(Admitted(<<"p1", 1>>)) = 2

(***************************************************************************)
(* createSnapshot: failures, ordering, flags                               *)
(***************************************************************************)
\* C32: when the read of the latest snapshot or the INSERT of the new one
\* fails, the call ends in that very step with the error (no second try),
\* having written no row and queued no job: the snapshot rows and the queue
\* are what they were before the step, and no call in flight carries an error.
C32_StorageFailureSurfaced ==
    [][\A r \in Reqs :
         /\ req'[r].error = ""
         /\ ( /\ ReturnsNow(r)
              /\ result'.error = "storage" )
            => /\ req[r].pc \in {"getLatest", "create"}
               /\ result'.pc = "failed"
               /\ result'.writes = 0 /\ result'.enqueues = 0
               /\ result'.queuedForDelta = FALSE
               /\ result'.snapshot = NoSnapshot
               /\ snapshots' = snapshots
               /\ nextId' = nextId
               /\ jobs' = jobs]_vars

\* C32 case: the INSERT failed for a call that had read a previous snapshot
\* (a call whose success would have queued a job); the previous row is the
\* only one and the queue is empty.
C32_Witness ==
    /\ result.pc = "failed" /\ result.error = "storage"
    /\ result.latest # NoSnapshot
    /\ snapshots = {result.latest}
    /\ jobs = <<>>

\* C33: the previous_snapshot_id of every job is the endpoint's snapshot
\* immediately preceding the job's snapshot_id in timestamp order, whatever
\* the interleaving of createSnapshot calls, and no two jobs of an endpoint
\* have the same previous_snapshot_id.
C33_JobsLinkPredecessor ==
    /\ \A i \in DOMAIN jobs :
          \E p, s \in snapshots :
              /\ p.id = jobs[i].previous_snapshot_id
              /\ s.id = jobs[i].snapshot_id
              /\ Preceding(p, s)
    /\ \A i, j \in DOMAIN jobs :
          (i # j /\ jobs[i].endpoint_id = jobs[j].endpoint_id)
              => jobs[i].previous_snapshot_id # jobs[j].previous_snapshot_id

\* C34: a call that returns isDuplicate = true was given a document with the
\* logical content (every key and value at every depth) of the data of the
\* snapshot it returns; so a document that differs from the latest snapshot
\* inside a nested object is not answered as a duplicate.
C34_DuplicateLosesNothing ==
    (result.pc = "done" /\ result.isDuplicate)
        => Canonical(result.data) = Canonical(result.snapshot.data)

\* Diff and similarity of one computation agree.
Agree(c) ==
    /\ c.changes_count = Len(c.diff)
    /\ (c.changes_count = 0) <=> (c.similarity_score.num = c.similarity_score.den)

\* C35: in every Delta row the worker stored and in every comparison on
\* demand, changes_count is the number of operations of the diff, and
\* changes_count is 0 exactly when similarity_score is 1.0.
C35_DiffAndSimilarityAgree ==
    /\ \A d \in deltas : Agree(d)
    /\ compared.status = "ok" => Agree(compared)

\* Both snapshots exist as rows of the endpoint.
RowsExist(endpointId, fromId, toId) ==
    \E p, s \in SnapshotsOf(endpointId) : p.id = fromId /\ s.id = toId

\* C36: a createSnapshot call writes at most one row and queues at most one
\* job, and queues only after its row was written; every job in the queue
\* references two snapshots that exist under the job's endpoint_id, and so
\* does every Delta row.
C36_WriteThenEnqueue ==
    /\ \A c \in {req[r] : r \in Reqs} \cup {result} :
          /\ c.writes <= 1 /\ c.enqueues <= 1
          /\ (c.enqueues = 1 \/ c.pc = "enqueue") => c.writes = 1
    /\ \A i \in JobIds :
          jobs[i].stored =>
              RowsExist(jobs[i].endpoint_id, jobs[i].previous_snapshot_id,
                        jobs[i].snapshot_id)
    /\ \A d \in deltas :
          RowsExist(d.endpoint_id, d.from_snapshot_id, d.to_snapshot_id)

\* C37: a returned result never has isDuplicate and queuedForDelta both
\* true, and queuedForDelta is true exactly when the call added one job to
\* the queue, whose snapshot_id is the id of the snapshot it returns (the
\* add and the return are one step; a call that returns otherwise leaves the
\* queue alone and has added nothing before).
C37_FlagsTruthful ==
    [][\A r \in Reqs :
         ReturnsNow(r) =>
            /\ ~(result'.isDuplicate /\ result'.queuedForDelta)
            /\ result'.pc = "failed" => ~result'.queuedForDelta
            /\ IF result'.queuedForDelta
               THEN /\ result'.enqueues = 1
                    /\ Len(jobs') = Len(jobs) + 1
                    /\ SubSeq(jobs', 1, Len(jobs)) = jobs
                    /\ jobs'[Len(jobs')].snapshot_id = result'.snapshot.id
                    /\ result'.snapshot \in snapshots
               ELSE /\ result'.enqueues = 0
                    /\ jobs' = jobs]_vars

\* C37 case: a call returned queuedForDelta = true for the third row of its
\* endpoint, and its job is the only one in the queue (no job was added for
\* the second row).
C37_Witness ==
    /\ result.pc = "done"
    /\ result.queuedForDelta /\ ~result.isDuplicate
    /\ Len(jobs) = 1
    /\ jobs[1].snapshot_id = result.snapshot.id
    /\ result.snapshot.id = 3
    /\ \A s \in snapshots : s.endpoint_id = result.endpoint_id

\* C38: the duplicate test looks at the endpoint's latest snapshot only.  A
\* call answered isDuplicate = true returns a newest row of its own endpoint,
\* carrying the hash of the submitted data; and a call whose endpoint's
\* newest rows all carry another hash goes on to write a new row, whatever
\* older rows of the endpoint or rows of other endpoints hold.
C38_DedupLatestOnly ==
    [][\A r \in Reqs :
         LET newest == NewestRows(req[r].endpoint_id)
         IN  /\ (ReturnsNow(r) /\ result'.isDuplicate)
                => /\ result'.snapshot \in newest
                   /\ result'.snapshot.data_hash = hashData(req[r].data)
                   /\ now - result'.snapshot.timestamp < DEDUP_WINDOW_MS
             /\ ( /\ req[r].pc = "getLatest"
                  /\ req'[r] # req[r]
                  /\ \A s \in newest : s.data_hash # hashData(req[r].data) )
                => /\ req'[r].pc = "create"
                   /\ req'[r].latest \in newest \cup {NoSnapshot}
                   /\ (req'[r].latest = NoSnapshot) <=> (newest = {})]_vars

\* C38 case: A, then B, then A again on one endpoint inside the dedup
\* interval: three rows and the two jobs A -> B and B -> A.
C38_Witness ==
    /\ \A r \in Reqs : req[r].pc = "idle"
    /\ \E a, b, c \in SnapshotsOf("e1") :
          /\ a.id = 1 /\ b.id = 2 /\ c.id = 3
          /\ a.timestamp < b.timestamp /\ b.timestamp <= c.timestamp
          /\ c.timestamp - a.timestamp < DEDUP_WINDOW_MS
          /\ a.data_hash = hashData(DocSmall1)
          /\ b.data_hash = hashData(DocSmall2)
          /\ c.data_hash = hashData(DocSmall1)
    /\ Len(jobs) = 2
    /\ jobs[1].previous_snapshot_id = 1 /\ jobs[1].snapshot_id = 2
    /\ jobs[2].previous_snapshot_id = 2 /\ jobs[2].snapshot_id = 3

\* The callers whose checkRateLimit call is seen to advance in this step (a
\* call that starts and answers in one step shows in calls only).
Stepping == {c \in Callers : rl'[c] # rl[c]}

\* The project whose checkRateLimit call advances in this step, and the key
\* the call computed when it started.
Acting ==
    IF Stepping # {}
    THEN LET c == CHOOSE d \in Stepping : TRUE
         IN  IF rl[c].pc # "idle" THEN rl[c].projectId ELSE rl'[c].projectId
    ELSE (CHOOSE e \in calls' \ calls : TRUE).key[1]

ActingKey ==
    IF \E c \in Stepping : rl[c].pc # "idle"
    THEN rl[CHOOSE c \in Stepping : rl[c].pc # "idle"].key
    ELSE <<Acting, getCurrentWindow>>

\* C39: a step of a checkRateLimit call of project A touches no Redis key but
\* A's own (A's key of the window the call started in), answers no other
\* project, and its answer is computed from A's own key and limit alone; so
\* what any other project B is answered does not depend on A's calls.
C39_TenantIsolation ==
    [][(rl' # rl \/ calls' # calls) =>
          LET limit == RATE_LIMITS[TierOf[Acting]]
          IN  /\ Cardinality(Stepping) <= 1
              /\ ActingKey[1] = Acting
              /\ \A key \in RateKeys \ {ActingKey} :
                    counters'[key] = counters[key] /\ ttl'[key] = ttl[key]
              /\ calls \subseteq calls'
              /\ Cardinality(calls' \ calls) <= 1
              /\ \A e \in calls' \ calls :
                    /\ e.key = ActingKey
                    /\ e.answer = (IF e.failed THEN failOpen(limit)
                                   ELSE allowedResult(e.count, limit))
                    /\ ~e.failed => e.count <= counters'[ActingKey]]_vars

\* C39 case: project p1 has used up its limit and was denied while project
\* p2, in the same window, was answered from a counter of its own.
C39_Witness ==
    /\ \E e \in CallsOf(<<"p1", 0>>) : ~e.failed /\ ~e.answer.allowed /\ e.count = 3
    /\ counters[<<"p1", 0>>] = 3
    /\ counters[<<"p2", 0>>] = 1
    /\ \E e \in CallsOf(<<"p2", 0>>) :
          /\ e.count = 1 /\ e.answer.allowed
          /\ e.answer.remaining = RATE_LIMITS[TierOf["p2"]] - 1

====
